---- MODULE Spec2Model ----
(***************************************************************************)
(* State-machine model of the assignment tracker's App component           *)
(* (src/src/ErrorBoundary.tsx): the React state of App, the localStorage   *)
(* keys it persists to, and one action per event handler.                  *)
(*                                                                         *)
(* JavaScript strings are modelled as sequences of character codes, so     *)
(* that split / Number / padStart / trim / localeCompare are computed and  *)
(* not assumed.  JavaScript numbers that may be null, undefined or NaN are *)
(* tagged records.  A Date is a day number (days since 1970-01-01, local   *)
(* time) and a minute of that day.                                         *)
(***************************************************************************)
EXTENDS Integers, Sequences, FiniteSets, TLC

VARIABLES
    overrides,          \* useState<SchoolOverride[]>            (line 341)
    storedOverrides,    \* localStorage[OVERRIDE_KEY]            (line 90)
    noSchoolForm,       \* useState({startDate, endDate, label}) (line 342)
    specialDayForm,     \* useState({date, dayOfWeek})           (line 347)
    classes,            \* useState<Course[]>                    (line 307)
    storedClasses,      \* localStorage[CLASS_KEY]               (line 88)
    classForm,          \* useState({name, meetingDays, ...})    (line 310)
    events,             \* useState<CalendarEvent[]>             (line 325)
    storedEvents,       \* localStorage[EVENT_KEY]               (line 89)
    eventForm,          \* useState({title, date, time, ...})    (line 326)
    editingEventId,     \* useState<string | null>               (line 340)
    quickAddOpen,       \* useState(false)                       (line 338)
    selectedDate,       \* useState<string>                      (line 334)
    now,                \* useState(() => new Date())            (line 351)
    nextClassToday,     \* useMemo cache                         (line 691)
    uuid,               \* number of crypto.randomUUID() values drawn so far
    assignments,        \* useState<Assignment[]>               (line 301)
    storedAssignments,  \* localStorage[STORAGE_KEY]            (line 87)
    form,               \* useState(emptyForm)                  (line 306)
    editingId,          \* useState<string | null>              (line 321)
    selectedCourse,     \* useState<string | null>              (line 305)
    editingClassId,     \* useState<string | null>              (line 316)
    editingClassName,       \* useState("")                     (line 317)
    editingClassDays,       \* useState<string[]>([])           (line 318)
    editingClassStartTime,  \* useState("")                     (line 319)
    editingClassEndTime,    \* useState("")                     (line 320)
    storageKind         \* per key: what kind of text localStorage holds there

overrideVars == <<overrides, storedOverrides, noSchoolForm, specialDayForm>>
classVars    == <<classes, storedClasses, classForm>>
eventVars    == <<events, storedEvents, eventForm, editingEventId, quickAddOpen>>
assignmentVars == <<assignments, storedAssignments, form, editingId, selectedCourse>>
classEditVars  == <<editingClassId, editingClassName, editingClassDays,
                    editingClassStartTime, editingClassEndTime>>
vars == <<overrides, storedOverrides, noSchoolForm, specialDayForm,
          classes, storedClasses, classForm, events, storedEvents, eventForm,
          editingEventId, quickAddOpen, selectedDate, now, nextClassToday, uuid,
          assignments, storedAssignments, form, editingId, selectedCourse,
          editingClassId, editingClassName, editingClassDays,
          editingClassStartTime, editingClassEndTime, storageKind>>

----------------------------------------------------------------------------
(* Bounds of the model.                                                    *)

MaxUuid == 3            \* records created (crypto.randomUUID() calls) in one run
MaxAssignments == 2     \* assignments listed at a time

----------------------------------------------------------------------------
(* JavaScript values.                                                      *)

Num(n)    == [t |-> "num", v |-> n]
NaN       == [t |-> "NaN"]
Null      == [t |-> "null"]
Undefined == [t |-> "undefined"]
Str(s)    == [t |-> "str", v |-> s]

\* character codes used by the program's own literals
DASH  == <<45>>                     \* "-"
COLON == <<58>>                     \* ":"
EMPTY == <<>>                       \* ""

IsDigit(c) == c \in 48..57
IsSpace(c) == c = 32

\* the element of a one-element set; {F(x) : x \in {e}} evaluates e once for F
The(S) == CHOOSE x \in S : TRUE

\* the k-th smallest element of a set of numbers
Nth(S, k) == CHOOSE p \in S : Cardinality({q \in S : q < p}) = k - 1

\* String.prototype.split with a one-character separator
Split(s, sep) ==
    LET cut(at, k) == IF k = 0 THEN 0
                      ELSE IF k = Cardinality(at) + 1 THEN Len(s) + 1
                      ELSE Nth(at, k)
    IN  The({[k \in 1..(Cardinality(at) + 1) |->
                 SubSeq(s, cut(at, k - 1) + 1, cut(at, k) - 1)] :
             at \in {{i \in 1..Len(s) : s[i] = sep[1]}}})

\* a trim that removes nothing
TrimNothing(s) == s

\* String.prototype.trim
Trim(s) ==
    The({IF keep = {} THEN <<>>
         ELSE SubSeq(s, Nth(keep, 1), Nth(keep, Cardinality(keep))) :
         keep \in {{i \in 1..Len(s) : ~IsSpace(s[i])}}})

\* the value of a string of decimal digits
DigitsValue(s) ==
    LET value[i \in 0..Len(s)] ==
            IF i = 0 THEN 0 ELSE 10 * value[i - 1] + (s[i] - 48)
    IN  value[Len(s)]

\* Number(string): whitespace is trimmed, "" is 0, an unsigned decimal integer is
\* its value, anything else is NaN (signs, fractions and exponents do not occur
\* in the strings explored)
Number(s) ==
    The({IF \A i \in 1..Len(t) : IsDigit(t[i]) THEN Num(DigitsValue(t)) ELSE NaN :
         t \in {Trim(s)}})

\* the i-th destructured element of array.map(Number): undefined when missing
Field(parts, i) == IF i <= Len(parts) THEN Number(parts[i]) ELSE Undefined

\* String(n) for an integer n >= 0
DecStr(n) ==
    The({[i \in 1..len |-> 48 + ((n \div (10 ^ (len - i))) % 10)] :
         len \in {CHOOSE k \in 1..18 : n < 10 ^ k /\ (k = 1 \/ n >= 10 ^ (k - 1))}})

\* String.prototype.padStart(width, fill) with a one-character fill
PadStart(s, width, fill) ==
    The({IF Len(t) >= width THEN t
         ELSE [i \in 1..width |-> IF i <= width - Len(t) THEN fill[1]
                                  ELSE t[i - (width - Len(t))]] :
         t \in {s}})

\* a comparison of names that keeps their case
toLowerCaseAsIs(s) == s

\* String.prototype.toLowerCase on ASCII
toLowerCase(s) == [i \in 1..Len(s) |-> IF s[i] \in 65..90 THEN s[i] + 32 ELSE s[i]]

\* String.prototype.localeCompare, as a sort key: a.localeCompare(b) < 0 iff
\* LexLess(LocaleKey(a), LocaleKey(b)).  The default collation compares the
\* letters without their case first (space, then punctuation, then digits, then
\* letters) and only between otherwise equal strings puts lower case first.
LocaleKey(s) ==
    LET primary(c) == IF c \in 97..122 THEN 100 + 2 * (c - 97)
                      ELSE IF c \in 65..90 THEN 100 + 2 * (c - 65)
                      ELSE IF c \in 48..57 THEN 50 + (c - 48)
                      ELSE IF c = 32 THEN 1
                      ELSE IF c = 45 THEN 2         \* "-"
                      ELSE 3                        \* ":" and other punctuation
        tertiary(c) == IF c \in 65..90 THEN 2 ELSE 1
    IN  [i \in 1..(2 * Len(s) + 1) |->
            IF i <= Len(s) THEN primary(s[i])
            ELSE IF i = Len(s) + 1 THEN 0
            ELSE tertiary(s[i - Len(s) - 1])]

----------------------------------------------------------------------------
(* Date: local calendar arithmetic of the JavaScript Date object.          *)

InvalidDate == [valid |-> FALSE, day |-> 0, min |-> 0]

\* days since 1970-01-01 of the first day of month m (1..12) of year y
DaysFromCivil(y, m) ==
    The({The({era * 146097
                  + (yoe * 365 + yoe \div 4 - yoe \div 100
                         + (153 * (IF mm > 2 THEN mm - 3 ELSE mm + 9) + 2) \div 5)
                  - 719468 :
              era \in {yy \div 400}, yoe \in {yy - (yy \div 400) * 400}}) :
         yy \in {IF m <= 2 THEN y - 1 ELSE y}, mm \in {m}})

\* year, month (1..12) and day of month of a day number
Civil[n \in Int] ==
    LET YearOfEra(doe) ==
            (doe - doe \div 1460 + doe \div 36524 - doe \div 146096) \div 365
        DayOfYear(doe, yoe) == doe - (365 * yoe + yoe \div 4 - yoe \div 100)
        Month(mp) == IF mp < 10 THEN mp + 3 ELSE mp - 9
    IN  The({The({The({The({
            [y |-> (yoe + era * 400) + (IF Month(mp) <= 2 THEN 1 ELSE 0),
             m |-> Month(mp),
             d |-> DayOfYear(doe, yoe) - (153 * mp + 2) \div 5 + 1] :
            mp  \in {(5 * DayOfYear(doe, yoe) + 2) \div 153}}) :
            yoe \in {YearOfEra(doe)}}) :
            doe \in {(n + 719468) - era * 146097}}) :
            era \in {(n + 719468) \div 146097}})

\* new Date(year, monthIndex, day): local midnight; month and day overflow are
\* normalised, years 0..99 mean 1900..1999, a non-number makes an Invalid Date
NewDate(year, monthIndex, day) ==
    The({IF y.t # "num" \/ mi.t # "num" \/ d.t # "num" THEN InvalidDate
         ELSE [valid |-> TRUE,
               day   |-> DaysFromCivil(
                             (IF y.v >= 0 /\ y.v <= 99 THEN 1900 + y.v ELSE y.v)
                                 + (mi.v \div 12),
                             (mi.v % 12) + 1) + d.v - 1,
               min   |-> 0] :
         y \in {year}, mi \in {monthIndex}, d \in {day}})

getFullYear(date) == Civil[date.day].y
getMonth(date)    == Civil[date.day].m - 1
getDate(date)     == Civil[date.day].d
getDay(date)      == (date.day + 4) % 7          \* 0 = Sunday; 1970-01-01 was a Thursday
getTime(date)     == IF date.valid THEN Num(date.day * 1440 + date.min) ELSE NaN

\* date <= other on Date objects (compares the time values)
DateLE(a, b) == a.valid /\ b.valid /\ a.day * 1440 + a.min <= b.day * 1440 + b.min

----------------------------------------------------------------------------
(* Module-level functions of the source.                                   *)

\* month - 1 on a value that may be undefined or NaN
MinusOne(x) == IF x.t = "num" THEN Num(x.v - 1) ELSE NaN

parseLocalDate(value) ==
    The({NewDate(year, MinusOne(month), day) :
         year  \in {Field(Split(value, DASH), 1)},
         month \in {Field(Split(value, DASH), 2)},
         day   \in {Field(Split(value, DASH), 3)}})

toISODate(date) ==
    The({The({year \o DASH \o month \o DASH \o day :
              year  \in {DecStr(getFullYear(d))},
              month \in {PadStart(DecStr(getMonth(d) + 1), 2, <<48>>)},
              day   \in {PadStart(DecStr(getDate(d)), 2, <<48>>)}}) :
         d \in {date}})

DAYS == <<"Mon", "Tue", "Wed", "Thu", "Fri", "Sat", "Sun">>

dayIndex(date) ==
    The({IF jsDay = 0 THEN 6 ELSE jsDay - 1 : jsDay \in {getDay(date)}})

timeToMinutes(value) ==
    IF value = EMPTY THEN Null
    ELSE The({IF hours.t = "NaN" \/ minutes.t = "NaN" THEN Null
              ELSE IF hours.t = "num" /\ minutes.t = "num"
                   THEN Num(hours.v * 60 + minutes.v)
                   ELSE NaN :                       \* hours * 60 + undefined
              hours   \in {Field(Split(value, COLON), 1)},
              minutes \in {Field(Split(value, COLON), 2)}})

\* a formatting that clamps at midnight only
minutesToTimeUnclampedAbove(minutes) ==
    The({PadStart(DecStr(clamped \div 60), 2, <<48>>) \o COLON
             \o PadStart(DecStr(clamped % 60), 2, <<48>>) :
         clamped \in {IF minutes < 0 THEN 0 ELSE minutes}})

minutesToTime(minutes) ==
    The({PadStart(DecStr(clamped \div 60), 2, <<48>>) \o COLON
             \o PadStart(DecStr(clamped % 60), 2, <<48>>) :
         clamped \in {IF minutes < 0 THEN 0
                      ELSE IF minutes > 23 * 60 + 59 THEN 23 * 60 + 59
                      ELSE minutes}})

----------------------------------------------------------------------------
(* Derived values of a render (useMemo values whose inputs are state).     *)

\* the Map built by overrides.forEach((item) => map.set(item.date, item)):
\* a later element of the array replaces an earlier one with the same date
OverrideMap(list) ==
    [iso \in {list[i].date : i \in 1..Len(list)} |->
        list[CHOOSE i \in 1..Len(list) :
                 /\ list[i].date = iso
                 /\ \A j \in (i + 1)..Len(list) : list[j].date # iso]]

overrideByDate == OverrideMap(overrides)

ScheduleDay(map, date) ==
    The({IF override # Undefined /\ override.kind = "no_school" THEN Null
         ELSE IF /\ override # Undefined
                 /\ override.kind = "day_schedule"
                 /\ override.dayOfWeek # ""
              THEN Str(override.dayOfWeek)
              ELSE Str(DAYS[dayIndex(date) + 1]) :
         override \in {The({IF iso \in DOMAIN map THEN map[iso] ELSE Undefined :
                            iso \in {toISODate(date)}})}})

scheduleDayForDate(date) == ScheduleDay(overrideByDate, date)

----------------------------------------------------------------------------
(* Array helpers.                                                          *)

Includes(arr, x) == \E i \in 1..Len(arr) : arr[i] = x

\* the subsequence of arr at the positions in keep
Filter(arr, keep) ==
    The({[k \in 1..Cardinality(ks) |-> list[Nth(ks, k)]] : list \in {arr}, ks \in {keep}})

\* a < b for two sequences of numbers, element by element, a prefix first
LexLess(a, b) ==
    \E k \in 1..Len(b) :
        /\ \A j \in 1..(k - 1) : j <= Len(a) /\ a[j] = b[j]
        /\ (k = Len(a) + 1) \/ (k <= Len(a) /\ a[k] < b[k])

\* Array.prototype.sort (stable) of <<key, item>> pairs by key: an element goes
\* after those with a smaller key and after the earlier ones with an equal key
StableSort(pairs) ==
    LET before(list, i) == {j \in 1..Len(list) :
                               \/ LexLess(list[j][1], list[i][1])
                               \/ (j < i /\ ~LexLess(list[i][1], list[j][1]))}
    IN  The({[p \in 1..Len(list) |->
                 list[CHOOSE i \in 1..Len(list) : Cardinality(before(list, i)) = p - 1]] :
             list \in {pairs}})

Items(pairs) == [i \in 1..Len(pairs) |-> pairs[i][2]]

----------------------------------------------------------------------------
(* nextClassToday (useMemo, lines 691-708).                                *)

Truthy(x) == x.t = "str" /\ x.v # ""

\* the next class among those that start after the current minute
NextClassOnAfterNow(classList, weekday, currentMinutes) ==
    LET entry(course) == [course |-> course,
                          start  |-> timeToMinutes(course.meetingStartTime),
                          end    |-> timeToMinutes(course.meetingEndTime)]
    IN  The({The({IF sorted = <<>> THEN Null ELSE sorted[1] :
                  sorted \in {Items(StableSort([i \in 1..Len(cands) |->
                                 <<(<<cands[i].start.v>>), cands[i]>>]))}}) :
             cands \in {Filter([i \in 1..Len(classList) |-> entry(classList[i])],
                               {i \in 1..Len(classList) :
                                   /\ Includes(classList[i].meetingDays, weekday.v)
                                   /\ classList[i].meetingStartTime # EMPTY
                                   /\ The({start.t = "num" /\ start.v > currentMinutes :
                                           start \in {timeToMinutes(
                                               classList[i].meetingStartTime)}})})}})

\* .filter(...).map(...).filter(...).sort(...) and candidates[0] ?? null
NextClassOn(classList, weekday, currentMinutes) ==
    LET entry(course) == [course |-> course,
                          start  |-> timeToMinutes(course.meetingStartTime),
                          end    |-> timeToMinutes(course.meetingEndTime)]
    IN  The({The({IF sorted = <<>> THEN Null ELSE sorted[1] :
                  sorted \in {Items(StableSort([i \in 1..Len(cands) |->
                                 <<(<<cands[i].start.v>>), cands[i]>>]))}}) :
             cands \in {Filter([i \in 1..Len(classList) |-> entry(classList[i])],
                               {i \in 1..Len(classList) :
                                   /\ Includes(classList[i].meetingDays, weekday.v)
                                   /\ classList[i].meetingStartTime # EMPTY
                                   /\ The({start.t = "num" /\ start.v >= currentMinutes :
                                           start \in {timeToMinutes(
                                               classList[i].meetingStartTime)}})})}})

NextClassTodayOf(classList, current, map) ==
    The({IF ~Truthy(weekday) THEN Null
         ELSE NextClassOn(classList, weekday, current.min) :
         weekday \in {ScheduleDay(map, current)}})

\* a dependency array without overrideByDate
NextClassDepsWithoutOverrides(setsClasses, setsNow, setsOverrides) ==
    setsClasses \/ setsNow

\* the dependency array [classes, now, overrideByDate]: the memo is recomputed in
\* the render that follows a setClasses, setNow or setOverrides
NextClassDepsChanged(setsClasses, setsNow, setsOverrides) ==
    setsClasses \/ setsNow \/ setsOverrides

Render(setsClasses, setsNow, setsOverrides) ==
    nextClassToday' =
        IF NextClassDepsChanged(setsClasses, setsNow, setsOverrides)
        THEN NextClassTodayOf(classes', now', OverrideMap(overrides'))
        ELSE nextClassToday

----------------------------------------------------------------------------
(* localStorage: load functions (lines 180-238) and mergeClasses           *)
(* (lines 244-266).  A stored array is held as the array JSON.parse gives; *)
(* storageKind tells whether the key holds such an array ("array"), no     *)
(* value ("absent"), the empty string ("empty"), a text that is not JSON   *)
(* ("unparseable") or the JSON of something else ("other").                *)

\* the falsy value of a field: "" for a string, and for an id
Blank(field) == IF field = "id" THEN 0 ELSE IF field = "kind" THEN "" ELSE EMPTY

\* a filter on the presence of the keys only
HasKeys(item, fields) == \A f \in fields : f \in DOMAIN item

\* item && item.a && item.b ...: an object whose fields a, b, ... are truthy
HasFields(item, fields) ==
    \A f \in fields : f \in DOMAIN item /\ item[f] # Blank(f)

Load(kind, stored, fields) ==
    IF kind # "array" THEN <<>>
    ELSE Filter(stored, {i \in 1..Len(stored) : HasFields(stored[i], fields)})

loadAssignments(kind, stored) == Load(kind, stored, {"id", "title", "dueDate"})
loadClasses(kind, stored)     == Load(kind, stored, {"id", "name"})
loadEvents(kind, stored)      == Load(kind, stored, {"id", "title", "date"})
loadOverrides(kind, stored)   == Load(kind, stored, {"id", "date", "kind"})

\* { ...item, meetingDays: Array.isArray(...) ? ... : [], meetingStartTime: ... ?? "", ... }
NormalizedClass(item) ==
    [id               |-> item.id,
     name             |-> item.name,
     meetingDays      |-> IF "meetingDays" \in DOMAIN item THEN item.meetingDays ELSE <<>>,
     meetingStartTime |-> IF "meetingStartTime" \in DOMAIN item
                          THEN item.meetingStartTime ELSE EMPTY,
     meetingEndTime   |-> IF "meetingEndTime" \in DOMAIN item
                          THEN item.meetingEndTime ELSE EMPTY]

\* the class records alone, no course made for an assignment
MergedClassRecords(classList, assignmentList, firstId) ==
    [k \in 1..Len(classList) |-> NormalizedClass(classList[k])]

\* the values of byName in insertion order: a name keeps the place of its first
\* class record and the value of its last one; then one fresh course per course
\* name of an assignment that no class record has
MergedByName(classList, assignmentList, firstId) ==
    The({[k \in 1..(Len(firsts) + Len(fresh)) |->
             IF k <= Len(firsts)
             THEN NormalizedClass(
                      classList[CHOOSE j \in 1..Len(classList) :
                                    /\ classList[j].name = firsts[k].name
                                    /\ \A l \in (j + 1)..Len(classList) :
                                           classList[l].name # firsts[k].name])
             ELSE [id               |-> firstId + (k - Len(firsts) - 1),
                   name             |-> fresh[k - Len(firsts)].course,
                   meetingDays      |-> <<>>,
                   meetingStartTime |-> EMPTY,
                   meetingEndTime   |-> EMPTY]] :
         firsts \in {Filter(classList,
                            {i \in 1..Len(classList) :
                                \A j \in 1..(i - 1) : classList[j].name # classList[i].name})},
         fresh  \in {Filter(assignmentList,
                            {i \in 1..Len(assignmentList) :
                                /\ \A j \in 1..Len(classList) :
                                       classList[j].name # assignmentList[i].course
                                /\ \A j \in 1..(i - 1) :
                                       assignmentList[j].course # assignmentList[i].course})}})

\* Array.from(byName.values()) without the sort
mergeClassesUnsorted(classList, assignmentList, firstId) ==
    MergedByName(classList, assignmentList, firstId)

mergeClasses(classList, assignmentList, firstId) ==
    The({Items(StableSort([i \in 1..Len(merged) |->
                              <<LocaleKey(merged[i].name), merged[i]>>])) :
         merged \in {MergedByName(classList, assignmentList, firstId)}})

----------------------------------------------------------------------------
(* Inputs explored.                                                        *)

D0229 == <<50, 48, 50, 52, 45, 48, 50, 45, 50, 57>>     \* "2024-02-29", a Thursday
D0301 == <<50, 48, 50, 52, 45, 48, 51, 45, 48, 49>>     \* "2024-03-01", a Friday
FormDates == {D0229, D0301}                  \* values of an <input type="date">
Labels    == {EMPTY, <<32, 83, 32>>}         \* "" and " S "
Weekdays  == {"Mon", "Fri"}                  \* options of the weekday <select> explored
NameA == <<65>>                              \* "A"
TitleE == <<69>>                             \* "E"
T0900 == <<48, 57, 58, 48, 48>>              \* "09:00", values of an <input type="time">
T0930 == <<48, 57, 58, 51, 48>>              \* "09:30"
T1000 == <<49, 48, 58, 48, 48>>              \* "10:00"

\* an instant of the local clock
At(iso, minutes) == [parseLocalDate(iso) EXCEPT !.min = minutes]

----------------------------------------------------------------------------
(* Initial state: App() mounted over an empty localStorage.                *)

emptyNoSchoolForm   == [startDate |-> EMPTY, endDate |-> EMPTY, label |-> EMPTY]
emptySpecialDayForm == [date |-> EMPTY, dayOfWeek |-> "Mon"]
emptyClassForm      == [name |-> EMPTY, meetingDays |-> <<>>,
                        meetingStartTime |-> EMPTY, meetingEndTime |-> EMPTY]
emptyForm           == [title |-> EMPTY, course |-> EMPTY, dueDate |-> EMPTY,
                        dueTime |-> EMPTY, notes |-> EMPTY]
StorageKeys         == {"assignments", "classes", "events", "overrides"}
\* courseId is the id of a class; the "" of no class is the id 0
emptyEventForm      == [title |-> EMPTY, date |-> EMPTY, time |-> EMPTY,
                        courseId |-> 0, notes |-> EMPTY]

InitAt(clock) ==
    /\ storedOverrides = <<>> /\ overrides = <<>>
    /\ storedClasses = <<>>   /\ classes = <<>>
    /\ storedEvents = <<>>    /\ events = <<>>
    /\ noSchoolForm = emptyNoSchoolForm
    /\ specialDayForm = emptySpecialDayForm
    /\ classForm = emptyClassForm
    /\ eventForm = emptyEventForm
    /\ editingEventId = Null
    /\ quickAddOpen = FALSE
    /\ now \in clock
    /\ selectedDate = toISODate(now)
    /\ nextClassToday = NextClassTodayOf(classes, now, OverrideMap(overrides))
    /\ uuid = 0
    /\ storedAssignments = <<>> /\ assignments = <<>>
    /\ form = emptyForm
    /\ editingId = Null
    /\ selectedCourse = Null
    /\ editingClassId = Null
    /\ editingClassName = EMPTY
    /\ editingClassDays = <<>>
    /\ editingClassStartTime = EMPTY
    /\ editingClassEndTime = EMPTY
    /\ storageKind = [key \in StorageKeys |-> "absent"]

\* one fresh course per distinct course name of an assignment that no loaded
\* class record has: the number of crypto.randomUUID() calls of mergeClasses
FreshCourses(classList, assignmentList) ==
    Cardinality({assignmentList[i].course : i \in 1..Len(assignmentList)}
                    \ {classList[j].name : j \in 1..Len(classList)})

\* the useState initialisers of App (lines 299-341) over the stored values:
\* the four collections, and the last id that crypto.randomUUID() gave
Loaded(kind, storedA, storedC, storedE, storedO, firstId) ==
    The({[assignments |-> loadedAssignments,
          classes     |-> mergeClasses(loadedClasses, loadedAssignments, firstId),
          events      |-> loadEvents(kind.events, storedE),
          overrides   |-> loadOverrides(kind.overrides, storedO),
          uuid        |-> firstId - 1 + FreshCourses(loadedClasses, loadedAssignments)] :
         loadedAssignments \in {loadAssignments(kind.assignments, storedA)},
         loadedClasses     \in {loadClasses(kind.classes, storedC)}})

\* App() mounted over a localStorage that holds one of the given contents
InitStored(clock, contents) ==
    /\ \E content \in contents :
           /\ storageKind = content.kind
           /\ storedAssignments = content.assignments
           /\ storedClasses = content.classes
           /\ storedEvents = content.events
           /\ storedOverrides = content.overrides
    /\ \E loaded \in {Loaded(storageKind, storedAssignments, storedClasses,
                              storedEvents, storedOverrides, 1)} :
           /\ assignments = loaded.assignments
           /\ classes = loaded.classes
           /\ events = loaded.events
           /\ overrides = loaded.overrides
           /\ uuid = loaded.uuid
    /\ noSchoolForm = emptyNoSchoolForm
    /\ specialDayForm = emptySpecialDayForm
    /\ classForm = emptyClassForm
    /\ eventForm = emptyEventForm
    /\ editingEventId = Null
    /\ quickAddOpen = FALSE
    /\ now \in clock
    /\ selectedDate = toISODate(now)
    /\ nextClassToday = NextClassTodayOf(classes, now, OverrideMap(overrides))
    /\ form = emptyForm
    /\ editingId = Null
    /\ selectedCourse = Null
    /\ editingClassId = Null
    /\ editingClassName = EMPTY
    /\ editingClassDays = <<>>
    /\ editingClassStartTime = EMPTY
    /\ editingClassEndTime = EMPTY

\* a localStorage content
Content(kind, storedA, storedC, storedE, storedO) ==
    [kind |-> kind, assignments |-> storedA, classes |-> storedC,
     events |-> storedE, overrides |-> storedO]

\* the kinds of a localStorage whose given keys hold arrays and the others nothing
Arrays(keys) == [key \in StorageKeys |-> IF key \in keys THEN "array" ELSE "absent"]

----------------------------------------------------------------------------
(* School overrides (lines 797-844 and the two forms, lines 1150-1240).    *)

\* onChange of a field of the no-school form
ChangeNoSchoolForm(field, value) ==
    /\ noSchoolForm' = [noSchoolForm EXCEPT ![field] = value]
    /\ UNCHANGED <<overrides, storedOverrides, specialDayForm, classVars, eventVars,
                   selectedDate, now, uuid,
                   assignmentVars, classEditVars, storageKind>>
    /\ Render(FALSE, FALSE, FALSE)

\* onChange of a field of the special-day form
ChangeSpecialDayForm(field, value) ==
    /\ specialDayForm' = [specialDayForm EXCEPT ![field] = value]
    /\ UNCHANGED <<overrides, storedOverrides, noSchoolForm, classVars, eventVars,
                   selectedDate, now, uuid,
                   assignmentVars, classEditVars, storageKind>>
    /\ Render(FALSE, FALSE, FALSE)

\* new Date(day.getFullYear(), day.getMonth(), day.getDate() + delta)
SameDayPlus(day, delta) ==
    The({NewDate(Num(getFullYear(d)), Num(getMonth(d)), Num(getDate(d) + delta)) :
         d \in {day}})

\* the for loop of handleAddNoSchool: one override per day from rangeStart to
\* rangeEnd, ids in loop order (a run of more than MaxUuid + 1 days is cut there)
NoSchoolLoop(rangeStart, rangeEnd, label, firstId) ==
    LET day[k \in 0..(MaxUuid + 1)] ==
            IF k = 0 THEN SameDayPlus(rangeStart, 0) ELSE SameDayPlus(day[k - 1], 1)
    IN  The({[k \in 1..n |-> [id    |-> firstId + (k - 1),
                              date  |-> toISODate(day[k - 1]),
                              kind  |-> "no_school",
                              label |-> Trim(label)]] :
             n \in {CHOOSE k \in 0..(MaxUuid + 1) :
                       /\ \A j \in 0..(k - 1) : DateLE(day[j], rangeEnd)
                       /\ k = MaxUuid + 1 \/ ~DateLE(day[k], rangeEnd)}})

\* [...nextOverrides, ...overrides] and [next, ...overrides]
AddOverrides(nextOverrides, list) == nextOverrides \o list

handleAddNoSchool ==
    IF noSchoolForm.startDate = EMPTY THEN UNCHANGED vars
    ELSE \E start \in {parseLocalDate(noSchoolForm.startDate)},
            end   \in {parseLocalDate(IF noSchoolForm.endDate # EMPTY
                                      THEN noSchoolForm.endDate
                                      ELSE noSchoolForm.startDate)} :
         IF getTime(start) = NaN \/ getTime(end) = NaN THEN UNCHANGED vars
         ELSE \E rangeStart \in {IF DateLE(start, end) THEN start ELSE end},
                 rangeEnd   \in {IF DateLE(start, end) THEN end ELSE start} :
              \E nextOverrides \in
                     {NoSchoolLoop(rangeStart, rangeEnd, noSchoolForm.label, uuid + 1)} :
              \E updated \in {AddOverrides(nextOverrides, overrides)} :
                  /\ uuid + Len(nextOverrides) <= MaxUuid
                  /\ uuid' = uuid + Len(nextOverrides)
                  /\ overrides' = updated
                  /\ storedOverrides' = updated
                  /\ storageKind' = [storageKind EXCEPT !.overrides = "array"]
                  /\ noSchoolForm' = emptyNoSchoolForm
                  /\ UNCHANGED <<specialDayForm, classVars, eventVars, selectedDate, now,
                                 assignmentVars, classEditVars>>
                  /\ Render(FALSE, FALSE, TRUE)

handleAddSpecialDay ==
    IF specialDayForm.date = EMPTY \/ specialDayForm.dayOfWeek = "" THEN UNCHANGED vars
    ELSE \E next \in {[id        |-> uuid + 1,
                       date      |-> specialDayForm.date,
                       kind      |-> "day_schedule",
                       dayOfWeek |-> specialDayForm.dayOfWeek]} :
         \E updated \in {AddOverrides(<<next>>, overrides)} :
             /\ uuid + 1 <= MaxUuid
             /\ uuid' = uuid + 1
             /\ overrides' = updated
             /\ storedOverrides' = updated
             /\ storageKind' = [storageKind EXCEPT !.overrides = "array"]
             /\ specialDayForm' = emptySpecialDayForm
             /\ UNCHANGED <<noSchoolForm, classVars, eventVars, selectedDate, now,
                            assignmentVars, classEditVars>>
             /\ Render(FALSE, FALSE, TRUE)

\* the delete button of a listed override (lines 1202 and 1261)
handleDeleteOverride(id) ==
    \E updated \in {Filter(overrides, {i \in 1..Len(overrides) : overrides[i].id # id})} :
        /\ \E i \in 1..Len(overrides) : overrides[i].id = id
        /\ overrides' = updated
        /\ storedOverrides' = updated
        /\ storageKind' = [storageKind EXCEPT !.overrides = "array"]
        /\ UNCHANGED <<noSchoolForm, specialDayForm, classVars, eventVars,
                       selectedDate, now, uuid, assignmentVars, classEditVars>>
        /\ Render(FALSE, FALSE, TRUE)

OverrideIds == {overrides[i].id : i \in 1..Len(overrides)}

NextOverrides ==
    \/ \E v \in FormDates \cup {EMPTY} : ChangeNoSchoolForm("startDate", v)
    \/ \E v \in {D0301, EMPTY} : ChangeNoSchoolForm("endDate", v)
    \/ handleAddNoSchool
    \/ \E v \in FormDates \cup {EMPTY} : ChangeSpecialDayForm("date", v)
    \/ \E v \in Weekdays : ChangeSpecialDayForm("dayOfWeek", v)
    \/ handleAddSpecialDay
    \/ \E id \in OverrideIds : handleDeleteOverride(id)

SpecOverrides == InitAt({At(D0229, 540)}) /\ [][NextOverrides]_vars

----------------------------------------------------------------------------
(* Classes: the "Add Class" form (lines 1005-1057) and handleCreateClass.  *)

\* onChange of the name or of a time input of the class form
ChangeClassForm(field, value) ==
    /\ classForm' = [classForm EXCEPT ![field] = value]
    /\ UNCHANGED <<classes, storedClasses, overrideVars, eventVars,
                   selectedDate, now, uuid,
                   assignmentVars, classEditVars, storageKind>>
    /\ Render(FALSE, FALSE, FALSE)

handleToggleCreateDay(day) ==
    /\ classForm' =
           [classForm EXCEPT !.meetingDays =
               IF Includes(classForm.meetingDays, day)
               THEN Filter(classForm.meetingDays,
                           {i \in 1..Len(classForm.meetingDays) :
                               classForm.meetingDays[i] # day})
               ELSE Append(classForm.meetingDays, day)]
    /\ UNCHANGED <<classes, storedClasses, overrideVars, eventVars,
                   selectedDate, now, uuid,
                   assignmentVars, classEditVars, storageKind>>
    /\ Render(FALSE, FALSE, FALSE)

\* .sort((a, b) => a.name.localeCompare(b.name))
SortByName(list) ==
    Items(StableSort([i \in 1..Len(list) |-> <<LocaleKey(list[i].name), list[i]>>]))

handleCreateClass ==
    \E name \in {Trim(classForm.name)} :
        /\ classForm.name # EMPTY                        \* <input required>
        /\ IF name = EMPTY THEN UNCHANGED vars
           ELSE IF \E i \in 1..Len(classes) :
                       toLowerCase(classes[i].name) = toLowerCase(name)
           THEN /\ classForm' = [classForm EXCEPT !.name = EMPTY]
                /\ UNCHANGED <<classes, storedClasses, overrideVars, eventVars,
                               selectedDate, now, uuid,
                               assignmentVars, classEditVars, storageKind>>
                /\ Render(FALSE, FALSE, FALSE)
           ELSE \E updated \in {SortByName(Append(classes,
                                    [id               |-> uuid + 1,
                                     name             |-> name,
                                     meetingDays      |-> classForm.meetingDays,
                                     meetingStartTime |-> classForm.meetingStartTime,
                                     meetingEndTime   |-> classForm.meetingEndTime]))} :
                    /\ uuid + 1 <= MaxUuid
                    /\ uuid' = uuid + 1
                    /\ classes' = updated
                    /\ storedClasses' = updated
                    /\ storageKind' = [storageKind EXCEPT !.classes = "array"]
                    /\ classForm' = emptyClassForm
                    /\ UNCHANGED <<overrideVars, eventVars, selectedDate, now,
                                   assignmentVars, classEditVars>>
                    /\ Render(TRUE, FALSE, FALSE)

----------------------------------------------------------------------------
(* Calendar events: the timeline and its quick-add form (lines 744-795,    *)
(* 1547-1692) and handleCreateEvent / handleDeleteEvent (lines 592-615).   *)

\* eventsByDate.get(iso) ?? []: the events of a date, sorted by time with the
\* untimed ones under the key "99:99"
SENTINEL == <<57, 57, 58, 57, 57>>                      \* "99:99"

\* a sort key without the sentinel of the untimed events
TimeKeyAsIs(time) == time

TimeKey(time) == IF time # EMPTY THEN time ELSE SENTINEL

EventsOn(list, iso) ==
    The({Items(StableSort([i \in 1..Len(day) |->
                              <<LocaleKey(TimeKey(day[i].time)), day[i]>>])) :
         day \in {Filter(list, {i \in 1..Len(list) : list[i].date = iso})}})

eventsByDate == [iso \in {events[i].date : i \in 1..Len(events)} |-> EventsOn(events, iso)]

\* a click on the timeline grid at vertical offset y (pixels from its top)
handleTimelineClick(y) ==
    \E minutes \in {((2 * y + 5) \div 10) * 5} :          \* Math.round(y / 5) * 5
        /\ eventForm' = [eventForm EXCEPT !.date = selectedDate,
                                          !.time = minutesToTime(minutes)]
        /\ quickAddOpen' = TRUE
        /\ UNCHANGED <<events, storedEvents, editingEventId, overrideVars, classVars,
                       selectedDate, now, uuid,
                       assignmentVars, classEditVars, storageKind>>
        /\ Render(FALSE, FALSE, FALSE)

\* onChange of the title, time or class input of the quick-add form
ChangeEventForm(field, value) ==
    /\ quickAddOpen
    /\ eventForm' = [eventForm EXCEPT ![field] = value]
    /\ UNCHANGED <<events, storedEvents, editingEventId, quickAddOpen, overrideVars,
                   classVars, selectedDate, now, uuid,
                   assignmentVars, classEditVars, storageKind>>
    /\ Render(FALSE, FALSE, FALSE)

\* handleQuickAddSubmit: handleCreateEvent(event), then setQuickAddOpen(false)
handleQuickAddSubmit ==
    /\ quickAddOpen /\ editingEventId = Null
    /\ eventForm.title # EMPTY                           \* <input required>
    /\ quickAddOpen' = FALSE
    /\ IF Trim(eventForm.title) = EMPTY \/ eventForm.date = EMPTY
       THEN UNCHANGED <<events, storedEvents, eventForm, selectedDate, uuid, storageKind>>
       ELSE \E next \in {[id        |-> uuid + 1,
                          title     |-> Trim(eventForm.title),
                          date      |-> eventForm.date,
                          time      |-> eventForm.time,
                          courseId  |-> eventForm.courseId,
                          notes     |-> Trim(eventForm.notes),
                          createdAt |-> now]} :
                /\ uuid + 1 <= MaxUuid
                /\ uuid' = uuid + 1
                /\ events' = <<next>> \o events
                /\ storedEvents' = <<next>> \o events
                /\ storageKind' = [storageKind EXCEPT !.events = "array"]
                /\ eventForm' = emptyEventForm
                /\ selectedDate' = next.date
    /\ UNCHANGED <<editingEventId, overrideVars, classVars, now,
                   assignmentVars, classEditVars>>
    /\ Render(FALSE, FALSE, FALSE)

handleQuickAddCancel ==
    /\ quickAddOpen
    /\ editingEventId' = Null
    /\ quickAddOpen' = FALSE
    /\ UNCHANGED <<events, storedEvents, eventForm, overrideVars, classVars,
                   selectedDate, now, uuid,
                   assignmentVars, classEditVars, storageKind>>
    /\ Render(FALSE, FALSE, FALSE)

handleEditEventSubmit ==
    /\ quickAddOpen /\ editingEventId # Null
    /\ eventForm.title # EMPTY                           \* <input required>
    /\ IF Trim(eventForm.title) = EMPTY \/ eventForm.date = EMPTY
       THEN UNCHANGED <<events, storedEvents, editingEventId, quickAddOpen, storageKind>>
       ELSE \E updated \in {[i \in 1..Len(events) |->
                                IF events[i].id = editingEventId.v
                                THEN [events[i] EXCEPT
                                         !.title    = Trim(eventForm.title),
                                         !.date     = eventForm.date,
                                         !.time     = eventForm.time,
                                         !.courseId = eventForm.courseId,
                                         !.notes    = Trim(eventForm.notes)]
                                ELSE events[i]]} :
                /\ events' = updated
                /\ storedEvents' = updated
                /\ storageKind' = [storageKind EXCEPT !.events = "array"]
                /\ editingEventId' = Null
                /\ quickAddOpen' = FALSE
    /\ UNCHANGED <<eventForm, overrideVars, classVars, selectedDate, now, uuid,
                   assignmentVars, classEditVars>>
    /\ Render(FALSE, FALSE, FALSE)

\* handleDeleteEditingEvent: handleDeleteEvent(editingEventId), then the resets
handleDeleteEditingEvent ==
    /\ quickAddOpen /\ editingEventId # Null
    /\ \E updated \in {Filter(events, {i \in 1..Len(events) :
                                          events[i].id # editingEventId.v})} :
           /\ events' = updated
           /\ storedEvents' = updated
           /\ storageKind' = [storageKind EXCEPT !.events = "array"]
    /\ editingEventId' = Null
    /\ quickAddOpen' = FALSE
    /\ UNCHANGED <<eventForm, overrideVars, classVars, selectedDate, now, uuid,
                   assignmentVars, classEditVars>>
    /\ Render(FALSE, FALSE, FALSE)

----------------------------------------------------------------------------
(* The calendar page: month grid (lines 1350-1394) and day view            *)
(* (lines 1456-1611), as values of the current render.                     *)

\* JavaScript arithmetic on numbers that may be NaN
Plus(a, b)    == IF a.t = "num" /\ b.t = "num" THEN Num(a.v + b.v) ELSE NaN
Minus(a, b)   == IF a.t = "num" /\ b.t = "num" THEN Num(a.v - b.v) ELSE NaN
MathMax(a, b) == IF a.t = "num" /\ b.t = "num"
                 THEN (IF a.v >= b.v THEN a ELSE b) ELSE NaN
\* x ?? d
Coalesce(x, d) == IF x = Null \/ x = Undefined THEN d ELSE x

selectedDateObj ==
    The({NewDate(Field(parts, 1), MinusOne(Field(parts, 2)), Field(parts, 3)) :
         parts \in {Split(selectedDate, DASH)}})

\* classes.filter((course) => weekday && course.meetingDays.includes(weekday)
\*                            && (course.meetingStartTime || course.meetingEndTime))
Recurring(classList, weekday) ==
    Filter(classList,
           {i \in 1..Len(classList) :
               /\ Truthy(weekday)
               /\ Includes(classList[i].meetingDays, weekday.v)
               /\ (classList[i].meetingStartTime # EMPTY
                     \/ classList[i].meetingEndTime # EMPTY)})

\* month grid cell of a date of calendarDays
MonthCellWeekday(date)   == scheduleDayForDate(date)
MonthCellRecurring(date) == Recurring(classes, MonthCellWeekday(date))

\* day view of selectedDate
DayViewWeekday == scheduleDayForDate(selectedDateObj)
DayRecurring   == Recurring(classes, DayViewWeekday)
eventsToday    == IF selectedDate \in DOMAIN eventsByDate
                  THEN eventsByDate[selectedDate] ELSE <<>>

ClassItem(course) ==
    The({[id    |-> <<"class", course.id>>,
          title |-> course.name,
          type  |-> "class",
          start |-> start,
          end   |-> Coalesce(end, IF start # Null THEN Plus(start, Num(60)) ELSE Null)] :
         start \in {timeToMinutes(course.meetingStartTime)},
         end   \in {timeToMinutes(course.meetingEndTime)}})

\* an event item that ends when it starts
EventItemWithoutDuration(event) ==
    The({[id        |-> <<"event", event.id>>,
          eventId   |-> event.id,
          title     |-> event.title,
          type      |-> "event",
          start     |-> start,
          end       |-> start,
          timeValue |-> event.time,
          courseId  |-> event.courseId,
          notes     |-> event.notes] :
         start \in {timeToMinutes(event.time)}})

EventItem(event) ==
    The({[id        |-> <<"event", event.id>>,
          eventId   |-> event.id,
          title     |-> event.title,
          type      |-> "event",
          start     |-> start,
          end       |-> IF start # Null THEN Plus(start, Num(60)) ELSE Null,
          timeValue |-> event.time,
          courseId  |-> event.courseId,
          notes     |-> event.notes] :
         start \in {timeToMinutes(event.time)}})

TimedItems(recurring, dayEvents) ==
    The({Filter(all, {i \in 1..Len(all) : all[i].start # Null}) :
         all \in {[i \in 1..Len(recurring) |-> ClassItem(recurring[i])]
                    \o [i \in 1..Len(dayEvents) |-> EventItem(dayEvents[i])]}})

AllDayItems(recurring, dayEvents) ==
    The({[i \in 1..Len(rs) |-> [id    |-> <<"class-all", rs[i].id>>,
                                label |-> rs[i].name,
                                type  |-> "class"]]
           \o [i \in 1..Len(es) |-> [id    |-> <<"event-all", es[i].id>>,
                                     label |-> es[i].title,
                                     type  |-> "event"]] :
         rs \in {Filter(recurring, {i \in 1..Len(recurring) :
                                       /\ recurring[i].meetingStartTime = EMPTY
                                       /\ recurring[i].meetingEndTime = EMPTY})},
         es \in {Filter(dayEvents, {i \in 1..Len(dayEvents) :
                                       dayEvents[i].time = EMPTY})}})

timedItems  == TimedItems(DayRecurring, eventsToday)
allDayItems == AllDayItems(DayRecurring, eventsToday)

\* style of a timeline item: top and height in pixels
TimelineTop(item) == Coalesce(item.start, Num(0))

\* a height without the minimum of 30 pixels
TimelineHeightWithoutMinimum(item) ==
    Minus(Coalesce(item.end, Plus(Coalesce(item.start, Num(0)), Num(60))),
          Coalesce(item.start, Num(0)))

TimelineHeight(item) ==
    MathMax(Num(30),
            Minus(Coalesce(item.end, Plus(Coalesce(item.start, Num(0)), Num(60))),
                  Coalesce(item.start, Num(0))))

\* onClick of a timeline item (lines 1591-1605)
TimelineItemClick(item) ==
    IF item.type # "event" THEN UNCHANGED vars
    ELSE /\ editingEventId' = Num(item.eventId)
         /\ eventForm' = [eventForm EXCEPT !.title    = item.title,
                                           !.date     = selectedDate,
                                           !.time     = item.timeValue,
                                           !.courseId = item.courseId,
                                           !.notes    = item.notes]
         /\ quickAddOpen' = TRUE
         /\ UNCHANGED <<events, storedEvents, overrideVars, classVars,
                        selectedDate, now, uuid,
                        assignmentVars, classEditVars, storageKind>>
         /\ Render(FALSE, FALSE, FALSE)

\* onClick of a month-grid cell (lines 1369-1372)
MonthCellClick(date) ==
    /\ selectedDate' = toISODate(date)
    /\ UNCHANGED <<overrideVars, classVars, eventVars, now, uuid,
                   assignmentVars, classEditVars, storageKind>>
    /\ Render(FALSE, FALSE, FALSE)

\* the "Today" button of the day view (line 1432); the clock it reads is taken
\* to show the instant of the last tick
TodayClick ==
    /\ selectedDate' = toISODate(now)
    /\ UNCHANGED <<overrideVars, classVars, eventVars, now, uuid,
                   assignmentVars, classEditVars, storageKind>>
    /\ Render(FALSE, FALSE, FALSE)

\* the 60-second interval: setNow(new Date()), the clock having moved on
Tick(clock) ==
    \E later \in clock :
        /\ later.day > now.day \/ (later.day = now.day /\ later.min > now.min)
        /\ now' = later
        /\ UNCHANGED <<overrideVars, classVars, eventVars, selectedDate, uuid,
                       assignmentVars, classEditVars, storageKind>>
        /\ Render(FALSE, TRUE, FALSE)

\* the page is loaded again: App() is mounted over what localStorage holds now
Mount ==
    /\ \E loaded \in {Loaded(storageKind, storedAssignments, storedClasses,
                              storedEvents, storedOverrides, uuid + 1)} :
           /\ loaded.uuid <= MaxUuid
           /\ assignments' = loaded.assignments
           /\ classes' = loaded.classes
           /\ events' = loaded.events
           /\ overrides' = loaded.overrides
           /\ uuid' = loaded.uuid
    /\ noSchoolForm' = emptyNoSchoolForm
    /\ specialDayForm' = emptySpecialDayForm
    /\ classForm' = emptyClassForm
    /\ eventForm' = emptyEventForm
    /\ editingEventId' = Null
    /\ quickAddOpen' = FALSE
    /\ selectedDate' = toISODate(now)
    /\ form' = emptyForm
    /\ editingId' = Null
    /\ selectedCourse' = Null
    /\ editingClassId' = Null
    /\ editingClassName' = EMPTY
    /\ editingClassDays' = <<>>
    /\ editingClassStartTime' = EMPTY
    /\ editingClassEndTime' = EMPTY
    /\ UNCHANGED <<storedAssignments, storedClasses, storedEvents, storedOverrides,
                   storageKind, now>>
    /\ Render(TRUE, TRUE, TRUE)

----------------------------------------------------------------------------
(* Assignments: the form of the assignments page (lines 1715-1770), the   *)
(* buttons of a listed assignment (lines 1900-1906) and their handlers.   *)

\* JSON.parse(JSON.stringify(list)) of assignments: a key whose value is
\* undefined is left out (only completedAt is ever undefined)
Stringified(list) ==
    [i \in 1..Len(list) |->
        [k \in {key \in DOMAIN list[i] :
                   key # "completedAt" \/ list[i][key] # Undefined} |-> list[i][k]]]

\* setAssignments(updated) alone
SetAssignmentsOnly(updated) ==
    /\ assignments' = updated
    /\ storedAssignments' = storedAssignments

\* setAssignments(updated); persistAssignments(updated)
SetAndPersistAssignments(updated) ==
    /\ assignments' = updated
    /\ storedAssignments' = Stringified(updated)

\* the options of the course <select>: "Select course" and the classes
CourseOptions == {EMPTY} \cup {classes[i].name : i \in 1..Len(classes)}

\* onChange of a field of the assignment form
ChangeForm(field, value) ==
    /\ field = "course" => value \in CourseOptions
    /\ form' = [form EXCEPT ![field] = value]
    /\ UNCHANGED <<assignments, storedAssignments, editingId, selectedCourse,
                   overrideVars, classVars, eventVars, selectedDate, now, uuid,
                   classEditVars, storageKind>>
    /\ Render(FALSE, FALSE, FALSE)

\* { ...item, ...form, title: form.title.trim(), course: form.course.trim() }
Edited(item, fields) ==
    [k \in DOMAIN item \cup DOMAIN fields |->
        IF k \in {"title", "course"} THEN Trim(fields[k])
        ELSE IF k \in DOMAIN fields THEN fields[k]
        ELSE item[k]]

handleSubmit ==
    /\ form.title # EMPTY /\ form.course # EMPTY        \* <input required>
    /\ form.dueDate # EMPTY /\ form.dueTime # EMPTY
    /\ IF Trim(form.title) = EMPTY \/ Trim(form.course) = EMPTY
       THEN UNCHANGED <<assignmentVars, uuid, storageKind>>
       ELSE IF editingId # Null
       THEN /\ SetAndPersistAssignments(
                   [i \in 1..Len(assignments) |->
                       IF assignments[i].id = editingId.v
                       THEN Edited(assignments[i], form)
                       ELSE assignments[i]])
            /\ storageKind' = [storageKind EXCEPT !.assignments = "array"]
            /\ editingId' = Null
            /\ form' = emptyForm
            /\ UNCHANGED <<selectedCourse, uuid>>
       ELSE /\ uuid + 1 <= MaxUuid
            /\ uuid' = uuid + 1
            /\ SetAndPersistAssignments(
                   <<[id        |-> uuid + 1,
                      title     |-> Trim(form.title),
                      course    |-> Trim(form.course),
                      dueDate   |-> form.dueDate,
                      dueTime   |-> form.dueTime,
                      status    |-> "Open",
                      notes     |-> Trim(form.notes),
                      createdAt |-> now]>> \o assignments)
            /\ storageKind' = [storageKind EXCEPT !.assignments = "array"]
            /\ form' = emptyForm
            /\ UNCHANGED <<editingId, selectedCourse>>
    /\ UNCHANGED <<overrideVars, classVars, eventVars, selectedDate, now, classEditVars>>
    /\ Render(FALSE, FALSE, FALSE)

\* a toggle that keeps the completion time of a reopened assignment
ToggledKeepingCompletedAt(item, at) ==
    [k \in DOMAIN item \cup {"completedAt"} |->
        IF k = "status" THEN (IF item.status = "Open" THEN "Done" ELSE "Open")
        ELSE IF k = "completedAt" /\ (item.status = "Open" \/ k \notin DOMAIN item)
        THEN (IF item.status = "Open" THEN at ELSE Undefined)
        ELSE item[k]]

\* { ...item, status: ..., completedAt: item.status === "Open" ? now : undefined }
Toggled(item, at) ==
    [k \in DOMAIN item \cup {"completedAt"} |->
        IF k = "status" THEN (IF item.status = "Open" THEN "Done" ELSE "Open")
        ELSE IF k = "completedAt" THEN (IF item.status = "Open" THEN at ELSE Undefined)
        ELSE item[k]]

handleToggleStatus(id) ==
    /\ SetAndPersistAssignments(
           [i \in 1..Len(assignments) |->
               IF assignments[i].id = id THEN Toggled(assignments[i], now)
               ELSE assignments[i]])
    /\ storageKind' = [storageKind EXCEPT !.assignments = "array"]
    /\ UNCHANGED <<form, editingId, selectedCourse,
                   overrideVars, classVars, eventVars, selectedDate, now, uuid,
                   classEditVars>>
    /\ Render(FALSE, FALSE, FALSE)

\* a deletion that leaves the edit of the deleted assignment open
handleDeleteKeepingEdit(id) ==
    /\ SetAndPersistAssignments(
           Filter(assignments, {i \in 1..Len(assignments) : assignments[i].id # id}))
    /\ storageKind' = [storageKind EXCEPT !.assignments = "array"]
    /\ UNCHANGED <<editingId, form, selectedCourse,
                   overrideVars, classVars, eventVars, selectedDate, now, uuid,
                   classEditVars>>
    /\ Render(FALSE, FALSE, FALSE)

handleDelete(id) ==
    /\ SetAndPersistAssignments(
           Filter(assignments, {i \in 1..Len(assignments) : assignments[i].id # id}))
    /\ storageKind' = [storageKind EXCEPT !.assignments = "array"]
    /\ IF editingId = Num(id)
       THEN editingId' = Null /\ form' = emptyForm
       ELSE UNCHANGED <<editingId, form>>
    /\ UNCHANGED <<selectedCourse,
                   overrideVars, classVars, eventVars, selectedDate, now, uuid,
                   classEditVars>>
    /\ Render(FALSE, FALSE, FALSE)

handleEdit(assignment) ==
    /\ editingId' = Num(assignment.id)
    /\ form' = [title   |-> assignment.title,
                course  |-> assignment.course,
                dueDate |-> assignment.dueDate,
                dueTime |-> assignment.dueTime,
                notes   |-> assignment.notes]
    /\ UNCHANGED <<assignments, storedAssignments, selectedCourse,
                   overrideVars, classVars, eventVars, selectedDate, now, uuid,
                   classEditVars, storageKind>>
    /\ Render(FALSE, FALSE, FALSE)

\* the "Cancel edit" button, shown while an assignment is edited (line 1710)
handleCancelEdit ==
    /\ editingId # Null
    /\ editingId' = Null
    /\ form' = emptyForm
    /\ UNCHANGED <<assignments, storedAssignments, selectedCourse,
                   overrideVars, classVars, eventVars, selectedDate, now, uuid,
                   classEditVars, storageKind>>
    /\ Render(FALSE, FALSE, FALSE)

\* the course filter buttons (lines 1790, 1813 and 1864)
SelectCourse(value) ==
    /\ selectedCourse' = value
    /\ UNCHANGED <<assignments, storedAssignments, form, editingId,
                   overrideVars, classVars, eventVars, selectedDate, now, uuid,
                   classEditVars, storageKind>>
    /\ Render(FALSE, FALSE, FALSE)

----------------------------------------------------------------------------
(* Classes: the rows of the class list (lines 1060-1140) and their         *)
(* handlers.                                                               *)

\* a count of the open assignments of a course only
CourseTotalOfOpen(list, name) ==
    Cardinality({i \in 1..Len(list) : list[i].course = name /\ list[i].status = "Open"})

\* courseCounts.get(name).total, 0 when the map has no entry
CourseTotal(list, name) ==
    Cardinality({i \in 1..Len(list) : list[i].course = name})

\* a deletion that also removes the events of the course
handleDeleteClassWithEvents(course) ==
    IF CourseTotal(assignments, course.name) > 0 THEN UNCHANGED vars
    ELSE \E updated \in {Filter(classes, {i \in 1..Len(classes) :
                                             classes[i].id # course.id})},
            kept \in {Filter(events, {i \in 1..Len(events) :
                                         events[i].courseId # course.id})} :
         /\ classes' = updated
         /\ storedClasses' = updated
         /\ events' = kept
         /\ storedEvents' = kept
         /\ storageKind' = [storageKind EXCEPT !.classes = "array", !.events = "array"]
         /\ selectedCourse' = IF selectedCourse = Str(course.name) THEN Null
                              ELSE selectedCourse
         /\ form' = IF form.course = course.name THEN [form EXCEPT !.course = EMPTY]
                    ELSE form
         /\ UNCHANGED <<assignments, storedAssignments, editingId, classForm,
                        overrideVars, eventForm, editingEventId, quickAddOpen,
                        selectedDate, now, uuid, classEditVars>>
         /\ Render(TRUE, FALSE, FALSE)

handleDeleteClass(course) ==
    IF CourseTotal(assignments, course.name) > 0 THEN UNCHANGED vars
    ELSE \E updated \in {Filter(classes, {i \in 1..Len(classes) :
                                             classes[i].id # course.id})} :
         /\ classes' = updated
         /\ storedClasses' = updated
         /\ storageKind' = [storageKind EXCEPT !.classes = "array"]
         /\ selectedCourse' = IF selectedCourse = Str(course.name) THEN Null
                              ELSE selectedCourse
         /\ form' = IF form.course = course.name THEN [form EXCEPT !.course = EMPTY]
                    ELSE form
         /\ UNCHANGED <<assignments, storedAssignments, editingId, classForm,
                        overrideVars, eventVars, selectedDate, now, uuid, classEditVars>>
         /\ Render(TRUE, FALSE, FALSE)

handleStartEditClass(course) ==
    /\ editingClassId' = Num(course.id)
    /\ editingClassName' = course.name
    /\ editingClassDays' = course.meetingDays
    /\ editingClassStartTime' = course.meetingStartTime
    /\ editingClassEndTime' = course.meetingEndTime
    /\ UNCHANGED <<overrideVars, classVars, eventVars, selectedDate, now, uuid,
                   assignmentVars, storageKind>>
    /\ Render(FALSE, FALSE, FALSE)

\* the "Cancel" button of the row that is edited (line 1109)
handleCancelEditClass ==
    /\ editingClassId # Null
    /\ editingClassId' = Null
    /\ editingClassName' = EMPTY
    /\ editingClassDays' = <<>>
    /\ editingClassStartTime' = EMPTY
    /\ editingClassEndTime' = EMPTY
    /\ UNCHANGED <<overrideVars, classVars, eventVars, selectedDate, now, uuid,
                   assignmentVars, storageKind>>
    /\ Render(FALSE, FALSE, FALSE)

\* onChange of the name input of the row that is edited (lines 1070-1073)
ChangeEditingClassName(value) ==
    /\ editingClassId # Null
    /\ editingClassName' = value
    /\ UNCHANGED <<editingClassId, editingClassDays, editingClassStartTime,
                   editingClassEndTime,
                   overrideVars, classVars, eventVars, selectedDate, now, uuid,
                   assignmentVars, storageKind>>
    /\ Render(FALSE, FALSE, FALSE)

handleToggleClassDay(day) ==
    /\ editingClassId # Null
    /\ editingClassDays' =
           IF Includes(editingClassDays, day)
           THEN Filter(editingClassDays,
                       {i \in 1..Len(editingClassDays) : editingClassDays[i] # day})
           ELSE Append(editingClassDays, day)
    /\ UNCHANGED <<editingClassId, editingClassName, editingClassStartTime,
                   editingClassEndTime,
                   overrideVars, classVars, eventVars, selectedDate, now, uuid,
                   assignmentVars, storageKind>>
    /\ Render(FALSE, FALSE, FALSE)

\* every assignment moved to the new name
RenamedCourseOfAll(list, old, name) ==
    [i \in 1..Len(list) |-> [list[i] EXCEPT !.course = name]]

\* prev.map((assignment) => assignment.course === course.name
\*              ? { ...assignment, course: name } : assignment)
RenamedCourse(list, old, name) ==
    [i \in 1..Len(list) |->
        IF list[i].course = old THEN [list[i] EXCEPT !.course = name] ELSE list[i]]

\* the "Save" button of the row that is edited (line 1106)
handleSaveEditClass(course) ==
    /\ editingClassId = Num(course.id)
    /\ \E name \in {Trim(editingClassName)} :
        IF name = EMPTY THEN UNCHANGED vars
        ELSE IF \E i \in 1..Len(classes) :
                    /\ classes[i].id # course.id
                    /\ toLowerCase(classes[i].name) = toLowerCase(name)
        THEN UNCHANGED vars
        ELSE \E updated \in {SortByName(
                     [i \in 1..Len(classes) |->
                         IF classes[i].id = course.id
                         THEN [classes[i] EXCEPT
                                  !.name             = name,
                                  !.meetingDays      = editingClassDays,
                                  !.meetingStartTime = editingClassStartTime,
                                  !.meetingEndTime   = editingClassEndTime]
                         ELSE classes[i]])} :
             /\ classes' = updated
             /\ storedClasses' = updated
             /\ SetAndPersistAssignments(RenamedCourse(assignments, course.name, name))
             /\ storageKind' = [storageKind EXCEPT !.classes = "array",
                                                   !.assignments = "array"]
             /\ selectedCourse' = IF selectedCourse = Str(course.name) THEN Str(name)
                                  ELSE selectedCourse
             /\ form' = IF form.course = course.name THEN [form EXCEPT !.course = name]
                        ELSE form
             /\ editingClassId' = Null
             /\ editingClassName' = EMPTY
             /\ editingClassDays' = <<>>
             /\ editingClassStartTime' = EMPTY
             /\ editingClassEndTime' = EMPTY
             /\ UNCHANGED <<editingId, classForm,
                            overrideVars, eventVars, selectedDate, now, uuid>>
             /\ Render(TRUE, FALSE, FALSE)

----------------------------------------------------------------------------
(* Specifications of the calendar page, each over the handlers its claims  *)
(* are about and a small set of inputs.                                    *)

CalendarDates == {At(D0229, 0), At(D0301, 0)}       \* cells of the month grid

\* classes meeting on Friday or on no day, no-school days on Friday 2024-03-01,
\* and the day view of Thursday 2024-02-29 and of Friday 2024-03-01
NextDayView ==
    \/ ChangeClassForm("name", NameA)
    \/ handleToggleCreateDay("Fri")
    \/ ChangeClassForm("meetingStartTime", T1000)
    \/ ChangeClassForm("meetingEndTime", T0930)
    \/ handleCreateClass
    \/ ChangeNoSchoolForm("startDate", D0301)
    \/ handleAddNoSchool
    \/ \E id \in OverrideIds : handleDeleteOverride(id)
    \/ \E date \in CalendarDates : MonthCellClick(date)

SpecDayView == InitAt({At(D0229, 540)}) /\ [][NextDayView]_vars

\* a class on Mondays, "follow Monday" special days and no-school days on
\* today's date, Thursday 2024-02-29, and the clock
Clock == {At(D0229, 540), At(D0229, 660)}

NextNoSchool ==
    \/ ChangeClassForm("name", NameA)
    \/ handleToggleCreateDay("Mon")
    \/ ChangeClassForm("meetingStartTime", T1000)
    \/ handleCreateClass
    \/ ChangeNoSchoolForm("startDate", D0229)
    \/ handleAddNoSchool
    \/ ChangeSpecialDayForm("date", D0229)
    \/ handleAddSpecialDay
    \/ \E id \in OverrideIds : handleDeleteOverride(id)
    \/ MonthCellClick(At(D0301, 0))
    \/ TodayClick
    \/ Tick(Clock)

SpecNoSchool == InitAt({At(D0229, 540)}) /\ [][NextNoSchool]_vars

\* a class on Thursdays with and without times, and events added from the
\* timeline of Thursday 2024-02-29
NextTimeline ==
    \/ ChangeClassForm("name", NameA)
    \/ handleToggleCreateDay("Thu")
    \/ ChangeClassForm("meetingStartTime", T1000)
    \/ ChangeClassForm("meetingEndTime", T0930)
    \/ handleCreateClass
    \/ handleTimelineClick(537)
    \/ ChangeEventForm("title", TitleE)
    \/ handleQuickAddSubmit
    \/ handleQuickAddCancel

SpecTimeline == InitAt({At(D0229, 540)}) /\ [][NextTimeline]_vars

\* events with and without a time, added, edited and deleted on the timelines
\* of two days
NextEvents ==
    \/ handleTimelineClick(537)
    \/ ChangeEventForm("title", TitleE)
    \/ ChangeEventForm("time", EMPTY)
    \/ handleQuickAddSubmit
    \/ handleQuickAddCancel
    \/ \E items \in {timedItems} : \E k \in 1..Len(items) : TimelineItemClick(items[k])
    \/ handleEditEventSubmit
    \/ handleDeleteEditingEvent
    \/ \E date \in CalendarDates : MonthCellClick(date)

\* clicks above, on and below the timeline grid of two days
ClickOffsets == {-7, -2, 0, 2, 3, 7, 8, 13, 537, 1432, 1437, 1438, 1440, 1500}

NextClick ==
    \/ \E y \in ClickOffsets : handleTimelineClick(y)
    \/ ChangeEventForm("title", TitleE)
    \/ handleQuickAddCancel
    \/ \E date \in CalendarDates : MonthCellClick(date)

SpecClick == InitAt({At(D0229, 540)}) /\ [][NextClick]_vars

SpecEvents == InitAt({At(D0229, 540)}) /\ [][NextEvents]_vars

\* events of one day at 08:55, at 09:00, at 10:00 and without a time, added, edited and
\* deleted in any order
NextEventOrder ==
    \/ handleTimelineClick(537)
    \/ ChangeEventForm("title", TitleE)
    \/ \E v \in {EMPTY, T0900, T1000} : ChangeEventForm("time", v)
    \/ handleQuickAddSubmit
    \/ handleQuickAddCancel
    \/ \E items \in {timedItems} : \E k \in 1..Len(items) : TimelineItemClick(items[k])
    \/ handleEditEventSubmit
    \/ handleDeleteEditingEvent

SpecEventOrder == InitAt({At(D0229, 540)}) /\ [][NextEventOrder]_vars

\* no-school days of the years 999 and 50, which an <input type="date"> accepts
D0999 == <<48, 57, 57, 57, 45, 48, 54, 45, 49, 53>>     \* "0999-06-15"
D0050 == <<48, 48, 53, 48, 45, 48, 54, 45, 49, 53>>     \* "0050-06-15"

NextOldDates ==
    \/ \E v \in {D0229, D0999, D0050, EMPTY} : ChangeNoSchoolForm("startDate", v)
    \/ handleAddNoSchool
    \/ \E id \in OverrideIds : handleDeleteOverride(id)
    \/ \E date \in CalendarDates : MonthCellClick(date)

SpecOldDates == InitAt({At(D0229, 540)}) /\ [][NextOldDates]_vars

----------------------------------------------------------------------------
(* Specifications of App() mounted over a localStorage that an earlier     *)
(* session, another version of the program or the user's tools wrote.      *)

T0905 == <<48, 57, 58, 48, 53>>              \* "09:05"
T2359 == <<50, 51, 58, 53, 57>>              \* "23:59"
T12   == <<49, 50>>                          \* "12": no minutes
TAB10 == <<97, 98, 58, 49, 48>>              \* "ab:10": no hours
StoredTimes == {EMPTY, T0905, T2359, T12, TAB10}

\* one class and one event of Thursday 2024-02-29 with stored time texts
StoredTimeContents ==
    {Content(Arrays({"classes", "events"}), <<>>,
             <<[id |-> 101, name |-> NameA, meetingDays |-> <<"Thu">>,
                meetingStartTime |-> start, meetingEndTime |-> end]>>,
             <<[id |-> 102, title |-> TitleE, date |-> D0229, time |-> time,
                courseId |-> 0, notes |-> EMPTY, createdAt |-> At(D0229, 0)]>>,
             <<>>) :
     start \in StoredTimes, end \in {EMPTY, T2359}, time \in StoredTimes}

NextStoredTimes ==
    \/ \E y \in {537, 1437} : handleTimelineClick(y)
    \/ handleQuickAddCancel
    \/ \E items \in {timedItems} : \E k \in 1..Len(items) : TimelineItemClick(items[k])
    \/ Tick(Clock)

SpecStoredTimes == InitStored({At(D0229, 540)}, StoredTimeContents) /\ [][NextStoredTimes]_vars

NameB == <<66>>                              \* "B"
TitleF == <<70>>                             \* "F"

\* class "A" of an earlier session, meeting on Thursdays at 09:00
ClassA == [id |-> 101, name |-> NameA, meetingDays |-> <<"Thu">>,
           meetingStartTime |-> T0900, meetingEndTime |-> EMPTY]

\* the assignment form is filled in and submitted, for a new assignment or for
\* the one that is edited
AssignmentFormSteps ==
    \/ \E v \in {TitleE, TitleF} : ChangeForm("title", v)
    \/ \E v \in CourseOptions \ {EMPTY} : ChangeForm("course", v)
    \/ ChangeForm("dueDate", D0229)
    \/ ChangeForm("dueTime", T0900)
    \/ (editingId # Null \/ Len(assignments) < MaxAssignments) /\ handleSubmit
    \/ \E i \in 1..Len(assignments) : handleEdit(assignments[i])
    \/ handleCancelEdit

\* assignments of class "A" are added, edited, completed, reopened and deleted
\* while the class is renamed to "B" and back
NextAssignments ==
    \/ AssignmentFormSteps
    \/ \E i \in 1..Len(assignments) : handleToggleStatus(assignments[i].id)
    \/ \E i \in 1..Len(assignments) : handleDelete(assignments[i].id)
    \/ \E i \in 1..Len(classes) : handleStartEditClass(classes[i])
    \/ \E v \in {NameA, NameB} : ChangeEditingClassName(v)
    \/ \E i \in 1..Len(classes) : handleSaveEditClass(classes[i])

SpecAssignments ==
    InitStored({At(D0229, 540)},
               {Content(Arrays({"classes"}), <<>>, <<ClassA>>, <<>>, <<>>)})
        /\ [][NextAssignments]_vars

NameLowerA == <<97>>                         \* "a"

\* class "B" of an earlier session, without a schedule
ClassB == [id |-> 102, name |-> NameB, meetingDays |-> <<>>,
           meetingStartTime |-> EMPTY, meetingEndTime |-> EMPTY]

\* an open assignment of class "A" of an earlier session
AssignmentOfA ==
    [id |-> 201, title |-> TitleE, course |-> NameA, dueDate |-> D0229,
     dueTime |-> T0900, status |-> "Open", notes |-> EMPTY,
     createdAt |-> At(D0229, 0)]

\* classes "A" and "B" are deleted, created again and renamed, with names that
\* differ in case only, while the one assignment of "A" is completed, reopened
\* and deleted
NextClasses ==
    \/ \E i \in 1..Len(assignments) : handleToggleStatus(assignments[i].id)
    \/ \E i \in 1..Len(assignments) : handleDelete(assignments[i].id)
    \/ \E i \in 1..Len(classes) : handleDeleteClass(classes[i])
    \/ \E v \in {NameA, NameLowerA, NameB} : ChangeClassForm("name", v)
    \/ handleCreateClass
    \/ \E i \in 1..Len(classes) : handleStartEditClass(classes[i])
    \/ \E v \in {NameLowerA, NameB} : ChangeEditingClassName(v)
    \/ handleToggleClassDay("Fri")
    \/ \E i \in 1..Len(classes) : handleSaveEditClass(classes[i])
    \/ handleCancelEditClass

SpecClasses ==
    InitStored({At(D0229, 540)},
               {Content(Arrays({"assignments", "classes"}),
                        <<AssignmentOfA>>, <<ClassA, ClassB>>, <<>>, <<>>)})
        /\ [][NextClasses]_vars

NameC == <<67>>                              \* "C"

\* what a key of localStorage can hold that is not the JSON of an array
NonArrays == {<<kind, <<>>>> : kind \in {"absent", "empty", "unparseable", "other"}}

\* stored assignments: of "A", of "a" and of "C", without a title, without a due
\* date, and elements that are no records
StoredAssignmentLists ==
    {<<>>,
     <<AssignmentOfA>>,
     <<[AssignmentOfA EXCEPT !.id = 202, !.course = NameLowerA]>>,
     <<[AssignmentOfA EXCEPT !.id = 203, !.course = NameC], Null, AssignmentOfA,
       [AssignmentOfA EXCEPT !.id = 204, !.title = EMPTY]>>,
     <<Num(5), [AssignmentOfA EXCEPT !.id = 203, !.course = NameC],
       [id |-> 205, title |-> TitleE, course |-> NameA, status |-> "Open"]>>}

\* stored classes with names that are unique up to case: in the order of an
\* earlier version, without a schedule, without a name, without an id
StoredClassLists ==
    {<<>>,
     <<ClassA>>,
     <<ClassB, ClassA>>,
     <<ClassA, Null, [id |-> 104, meetingDays |-> <<"Fri">>],
       [id |-> 103, name |-> NameC], [name |-> NameB]>>}

StoredEventLists ==
    {<<[id |-> 301, title |-> TitleE, date |-> D0229, time |-> T0900,
        courseId |-> 0, notes |-> EMPTY],
       [id |-> 302, title |-> TitleE, date |-> EMPTY, time |-> T0900],
       Null,
       [id |-> 303, title |-> TitleF, date |-> D0301, time |-> EMPTY,
        courseId |-> 0, notes |-> EMPTY]>>}

StoredOverrideLists ==
    {<<[id |-> 401, date |-> D0301, kind |-> "day_schedule", dayOfWeek |-> "Thu"],
       [id |-> 402, date |-> D0229],
       [id |-> 403, date |-> D0229, kind |-> "", label |-> EMPTY],
       [id |-> 404, date |-> D0229, kind |-> "no_school", label |-> EMPTY]>>}

LoadContents ==
    {Content([assignments |-> a[1], classes |-> c[1], events |-> e[1],
              overrides |-> o[1]], a[2], c[2], e[2], o[2]) :
     a \in NonArrays \cup {<<"array", list>> : list \in StoredAssignmentLists},
     c \in NonArrays \cup {<<"array", list>> : list \in StoredClassLists},
     e \in {<<"absent", <<>>>>, <<"unparseable", <<>>>>}
              \cup {<<"array", list>> : list \in StoredEventLists},
     o \in {<<"absent", <<>>>>, <<"other", <<>>>>}
              \cup {<<"array", list>> : list \in StoredOverrideLists}}

\* the page is loaded over each content, assignments are completed and deleted,
\* and the page is loaded again
NextLoad ==
    \/ Mount
    \/ \E i \in 1..Len(assignments) : handleToggleStatus(assignments[i].id)
    \/ \E i \in 1..Len(assignments) : handleDelete(assignments[i].id)

SpecLoad == InitStored({At(D0229, 540)}, LoadContents) /\ [][NextLoad]_vars

\* storage of an earlier session with one record and one malformed element
\* under each key
PersistContents ==
    {Content(Arrays(StorageKeys),
             <<AssignmentOfA, Null>>,
             <<ClassA, [id |-> 104]>>,
             <<[id |-> 301, title |-> TitleE, date |-> D0229, time |-> T0900,
                courseId |-> 0, notes |-> EMPTY],
               [id |-> 302, title |-> TitleE]>>,
             <<[id |-> 401, date |-> D0301, kind |-> "no_school", label |-> EMPTY],
               [id |-> 402, date |-> D0229]>>)}

\* every operation that changes a collection
NextPersist ==
    \/ \E i \in 1..Len(assignments) : handleEdit(assignments[i])
    \/ handleSubmit
    \/ \E i \in 1..Len(assignments) : handleToggleStatus(assignments[i].id)
    \/ \E i \in 1..Len(assignments) : handleDelete(assignments[i].id)
    \/ \E i \in 1..Len(classes) : handleStartEditClass(classes[i])
    \/ ChangeEditingClassName(NameB)
    \/ \E i \in 1..Len(classes) : handleSaveEditClass(classes[i])
    \/ ChangeClassForm("name", NameC)
    \/ handleCreateClass
    \/ \E i \in 1..Len(classes) : handleDeleteClass(classes[i])
    \/ \E id \in OverrideIds : handleDeleteOverride(id)
    \/ \E items \in {timedItems} : \E k \in 1..Len(items) : TimelineItemClick(items[k])
    \/ handleEditEventSubmit
    \/ handleDeleteEditingEvent

SpecPersist == InitStored({At(D0229, 540)}, PersistContents) /\ [][NextPersist]_vars

BlankText == <<32>>                          \* " "

\* an event of Thursday 2024-02-29 at 09:00 of an earlier session
EventE == [id |-> 301, title |-> TitleE, date |-> D0229, time |-> T0900,
           courseId |-> 0, notes |-> EMPTY]

\* the forms are submitted with a blank in a required text input or without a
\* required date, and an event is opened and saved as it is
NextRequired ==
    \/ ChangeForm("title", BlankText)
    \/ ChangeForm("course", NameA)
    \/ ChangeForm("dueDate", D0229)
    \/ ChangeForm("dueTime", T0900)
    \/ handleSubmit
    \/ ChangeClassForm("name", BlankText)
    \/ handleCreateClass
    \/ handleTimelineClick(537)
    \/ ChangeEventForm("title", BlankText)
    \/ handleQuickAddSubmit
    \/ \E items \in {timedItems} : \E k \in 1..Len(items) : TimelineItemClick(items[k])
    \/ handleEditEventSubmit
    \/ ChangeNoSchoolForm("label", BlankText)
    \/ handleAddNoSchool
    \/ handleAddSpecialDay

SpecRequired ==
    InitStored({At(D0229, 540)},
               {Content(Arrays({"classes", "events"}), <<>>, <<ClassA>>, <<EventE>>, <<>>)})
        /\ [][NextRequired]_vars

\* classes "A" and "B", an assignment of "A", an event of class "B", an event of
\* no class and a no-school day of an earlier session
DeleteClassContents ==
    {Content(Arrays(StorageKeys),
             <<AssignmentOfA>>,
             <<ClassA, ClassB>>,
             <<[EventE EXCEPT !.id = 302, !.courseId = 102], EventE>>,
             <<[id |-> 401, date |-> D0301, kind |-> "no_school", label |-> EMPTY]>>)}

\* the classes are deleted while the assignment is completed and deleted and the
\* assignment form and the course filter name them
NextDeleteClass ==
    \/ \E i \in 1..Len(assignments) : handleToggleStatus(assignments[i].id)
    \/ \E i \in 1..Len(assignments) : handleDelete(assignments[i].id)
    \/ \E i \in 1..Len(assignments) : handleEdit(assignments[i])
    \/ handleCancelEdit
    \/ \E i \in 1..Len(classes) : handleDeleteClass(classes[i])
    \/ \E v \in CourseOptions : ChangeForm("course", v)
    \/ \E i \in 1..Len(classes) : SelectCourse(Str(classes[i].name))
    \/ SelectCourse(Null)

SpecDeleteClass ==
    InitStored({At(D0229, 540), At(D0301, 540)}, DeleteClassContents)
    /\ [][NextDeleteClass]_vars

\* an assignment of "A" of a session that stored no class list; assignments are
\* added, edited and deleted, classes created, renamed and deleted, and the page
\* is loaded again
NextCourses ==
    \/ ChangeForm("title", TitleE)
    \/ \E v \in CourseOptions : ChangeForm("course", v)
    \/ ChangeForm("dueDate", D0229)
    \/ ChangeForm("dueTime", T0900)
    \/ (editingId # Null \/ Len(assignments) < MaxAssignments) /\ handleSubmit
    \/ \E i \in 1..Len(assignments) : handleEdit(assignments[i])
    \/ \E i \in 1..Len(assignments) : handleDelete(assignments[i].id)
    \/ ChangeClassForm("name", NameB)
    \/ handleCreateClass
    \/ \E i \in 1..Len(classes) : handleStartEditClass(classes[i])
    \/ ChangeEditingClassName(NameC)
    \/ \E i \in 1..Len(classes) : handleSaveEditClass(classes[i])
    \/ \E i \in 1..Len(classes) : handleDeleteClass(classes[i])
    \/ Mount

SpecCourses ==
    InitStored({At(D0229, 540)},
               {Content(Arrays({"assignments"}), <<AssignmentOfA>>, <<>>, <<>>, <<>>)})
        /\ [][NextCourses]_vars

\* offsets of clicks on the empty timeline: 10:00 and 11:00
QuickAddOffsets == {600, 660}

\* an event of an earlier session is opened by a click on its block, the empty
\* timeline is clicked, a title is typed and the quick-add form is submitted or
\* cancelled
NextQuickAdd ==
    \/ \E items \in {timedItems} : \E k \in 1..Len(items) : TimelineItemClick(items[k])
    \/ \E y \in QuickAddOffsets : handleTimelineClick(y)
    \/ ChangeEventForm("title", TitleF)
    \/ handleQuickAddSubmit
    \/ handleEditEventSubmit
    \/ handleQuickAddCancel

SpecQuickAdd ==
    InitStored({At(D0229, 540)},
               {Content(Arrays({"events"}), <<>>, <<>>, <<EventE>>, <<>>)})
        /\ [][NextQuickAdd]_vars

\* an assignment of "A" of a session that stored no class list: events of the
\* listed classes are added through the quick-add form, the assignment is
\* completed and the page is loaded again
NextReload ==
    \/ handleTimelineClick(600)
    \/ ChangeEventForm("title", TitleF)
    \/ \E i \in 1..Len(classes) : ChangeEventForm("courseId", classes[i].id)
    \/ handleQuickAddSubmit
    \/ handleQuickAddCancel
    \/ \E i \in 1..Len(assignments) : handleToggleStatus(assignments[i].id)
    \/ Mount

SpecReload ==
    InitStored({At(D0229, 540)},
               {Content(Arrays({"assignments"}), <<AssignmentOfA>>, <<>>, <<>>, <<>>)})
        /\ [][NextReload]_vars

\* classes "A" and "B" with an assignment each, an event of class "A" and a
\* no-school day
RenameContents ==
    {Content(Arrays(StorageKeys),
             <<AssignmentOfA, [AssignmentOfA EXCEPT !.id = 202, !.course = NameB]>>,
             <<ClassA, ClassB>>,
             <<[EventE EXCEPT !.courseId = 101]>>,
             <<[id |-> 401, date |-> D0301, kind |-> "no_school", label |-> EMPTY]>>)}

\* the classes are renamed to "C", to each other's name and to blanks while the
\* assignment form and the course filter name them
NextRename ==
    \/ \E i \in 1..Len(classes) : handleStartEditClass(classes[i])
    \/ \E v \in {NameB, NameC, BlankText} : ChangeEditingClassName(v)
    \/ \E i \in 1..Len(classes) : handleSaveEditClass(classes[i])
    \/ handleCancelEditClass
    \/ \E v \in CourseOptions : ChangeForm("course", v)
    \/ \E i \in 1..Len(classes) : SelectCourse(Str(classes[i].name))
    \/ SelectCourse(Null)

SpecRename == InitStored({At(D0229, 540)}, RenameContents) /\ [][NextRename]_vars

\* assignments of class "A" are added, edited, completed, reopened and deleted,
\* the edited one included
NextEditing ==
    \/ AssignmentFormSteps
    \/ \E i \in 1..Len(assignments) : handleToggleStatus(assignments[i].id)
    \/ \E i \in 1..Len(assignments) : handleDelete(assignments[i].id)

SpecEditing ==
    InitStored({At(D0229, 540)},
               {Content(Arrays({"classes"}), <<>>, <<ClassA>>, <<>>, <<>>)})
        /\ [][NextEditing]_vars

\* no-school days are added for one date, for the two dates from 2024-02-29 to
\* 2024-03-01 given in either order and for a date of the year 999, with a
\* label or without, and deleted
NextRange ==
    \/ \E v \in {D0229, D0301, D0999} : ChangeNoSchoolForm("startDate", v)
    \/ \E v \in {D0229, D0301, EMPTY} : ChangeNoSchoolForm("endDate", v)
    \/ \E v \in Labels : ChangeNoSchoolForm("label", v)
    \/ handleAddNoSchool
    \/ \E id \in OverrideIds : handleDeleteOverride(id)

SpecRange == InitAt({At(D0229, 540)}) /\ [][NextRange]_vars

\* instants of Thursday 2024-02-29 around the starts of the classes, and the
\* midnight that follows
NextClassClock ==
    {At(D0229, 539), At(D0229, 540), At(D0229, 541), At(D0229, 571), At(D0301, 0)}

\* two classes of Thursday, each at 09:00 or at 09:30
NextClassContents ==
    {Content(Arrays({"classes"}), <<>>,
             <<[ClassA EXCEPT !.meetingStartTime = first],
               [ClassA EXCEPT !.id = 103, !.name = NameC, !.meetingStartTime = second]>>,
             <<>>, <<>>) :
         first \in {T0900, T0930}, second \in {T0900, T0930}}

\* the clock ticks through the day while today becomes a no-school day or a day
\* that follows Friday's schedule, and classes are deleted
NextNextClass ==
    \/ Tick(NextClassClock)
    \/ ChangeNoSchoolForm("startDate", D0229)
    \/ handleAddNoSchool
    \/ ChangeSpecialDayForm("date", D0229)
    \/ ChangeSpecialDayForm("dayOfWeek", "Fri")
    \/ handleAddSpecialDay
    \/ \E id \in OverrideIds : handleDeleteOverride(id)
    \/ \E i \in 1..Len(classes) : handleDeleteClass(classes[i])

SpecNextClass ==
    InitStored({At(D0229, 539)}, NextClassContents) /\ [][NextNextClass]_vars

----------------------------------------------------------------------------
(* Claims about the override resolver.                                     *)

OverridesFor(list, iso) == {i \in 1..Len(list) : list[i].date = iso}

\* C1: for every date d, scheduleDayForDate(d) is null when a no_school override
\* exists for d, the substitute weekday when a day_schedule override exists for
\* d, and the natural Monday-first weekday of d when no override exists for d.
C1_ResolveWeekday ==
    \A iso \in FormDates :
        LET d == parseLocalDate(iso)
            r == scheduleDayForDate(d)
        IN  /\ \A i \in OverridesFor(overrides, iso) :
                   /\ overrides[i].kind = "no_school" => r = Null
                   /\ overrides[i].kind = "day_schedule"
                          => r = Str(overrides[i].dayOfWeek)
            /\ OverridesFor(overrides, iso) = {}
                   => r = Str(DAYS[(IF getDay(d) = 0 THEN 6 ELSE getDay(d) - 1) + 1])

\* C2: an override that a handler has just inserted is the one scheduleDayForDate
\* uses for its date, whatever was inserted for that date before (last write wins).
C2_LastWriteWins ==
    [][\A i \in 1..Len(overrides') :
           overrides'[i].id > uuid =>
               ScheduleDay(OverrideMap(overrides'), parseLocalDate(overrides'[i].date))
                   = (IF overrides'[i].kind = "no_school"
                      THEN Null
                      ELSE Str(overrides'[i].dayOfWeek))]_vars

\* C3: the override collection, in memory and as persisted, holds at most one
\* override record per calendar date.
C3_OnePerDate ==
    /\ \A i, j \in 1..Len(overrides) :
           i # j => overrides[i].date # overrides[j].date
    /\ \A i, j \in 1..Len(storedOverrides) :
           i # j => storedOverrides[i].date # storedOverrides[j].date

----------------------------------------------------------------------------
(* Claims about the day view, the month grid and nextClassToday.           *)

HasClassItem(items, course) ==
    \E k \in 1..Len(items) : items[k].type = "class" /\ items[k].id[2] = course.id

HasEventItem(items, event) ==
    \E k \in 1..Len(items) : items[k].type = "event" /\ items[k].id[2] = event.id

NoClassItem(items) == \A k \in 1..Len(items) : items[k].type # "class"

\* minutes from midnight of a well-formed "HH:MM"
HHMM(time) ==
    ((time[1] - 48) * 10 + (time[2] - 48)) * 60 + (time[4] - 48) * 10 + (time[5] - 48)

\* C4: for every course, the day view of the selected date holds a class item of
\* the course (timed or all-day) if and only if the resolved weekday of the date
\* is non-null and the course's meetingDays contains it.
C4_ClassItemIffMeets ==
    \E weekday \in {scheduleDayForDate(parseLocalDate(selectedDate))},
       timed \in {timedItems}, allDay \in {allDayItems} :
        \A i \in 1..Len(classes) :
            (HasClassItem(timed, classes[i]) \/ HasClassItem(allDay, classes[i]))
                <=> (weekday # Null /\ Includes(classes[i].meetingDays, weekday.v))

\* C5: while a no_school override added by handleAddNoSchool for date X is in the
\* collection, the day view of X holds no class item, the month-grid cell of X
\* lists no recurring class, and nextClassToday is null when today is X.
C5_NoSchoolNoClassItems ==
    \A i \in 1..Len(overrides) :
        overrides[i].kind = "no_school" =>
            \E X \in {overrides[i].date} :
                /\ MonthCellRecurring(parseLocalDate(X)) = <<>>
                /\ selectedDate = X => NoClassItem(timedItems) /\ NoClassItem(allDayItems)
                /\ toISODate(now) = X => nextClassToday = Null

\* C6: the month-grid cell and the day view of one date use the same weekday,
\* scheduleDayForDate of the date, and the nextClassToday in use is the one
\* computed with scheduleDayForDate(now) over the overrides of the current state.
C6_SameResolution ==
    /\ \A date \in CalendarDates :
           toISODate(date) = selectedDate =>
               /\ MonthCellWeekday(date) = DayViewWeekday
               /\ MonthCellRecurring(date) = DayRecurring
    /\ DayViewWeekday = scheduleDayForDate(parseLocalDate(selectedDate))
    /\ \E weekday \in {scheduleDayForDate(now)} :
           nextClassToday = IF weekday = Null THEN Null
                            ELSE NextClassOn(classes, weekday, now.min)

\* C6 witness: today follows a special-day schedule and a class found through it
\* is the next class, while the day view shows today
C6_Witness ==
    /\ nextClassToday # Null
    /\ selectedDate = toISODate(now)
    /\ \E i \in 1..Len(overrides) :
           overrides[i].date = toISODate(now) /\ overrides[i].kind = "day_schedule"
    /\ scheduleDayForDate(now) # Str(DAYS[dayIndex(now) + 1])

\* C7: every course that meets on the resolved weekday of the selected date and
\* has neither a start nor an end time has a class item in the all-day list.
C7_UntimedClassIsAllDay ==
    \E weekday \in {scheduleDayForDate(parseLocalDate(selectedDate))},
       allDay \in {allDayItems} :
        \A i \in 1..Len(classes) :
            (/\ weekday # Null
             /\ Includes(classes[i].meetingDays, weekday.v)
             /\ classes[i].meetingStartTime = EMPTY
             /\ classes[i].meetingEndTime = EMPTY)
                => HasClassItem(allDay, classes[i])

\* C8: every event dated on the selected date is, when its time is empty, in the
\* all-day list and not in the timed list, and otherwise in the timed list with
\* start = timeToMinutes(time) and end = start + 60 and not in the all-day list.
C8_EventTimedOrAllDay ==
    \E timed \in {timedItems}, allDay \in {allDayItems} :
        \A i \in 1..Len(events) :
            events[i].date = selectedDate =>
                IF events[i].time = EMPTY
                THEN HasEventItem(allDay, events[i]) /\ ~HasEventItem(timed, events[i])
                ELSE /\ ~HasEventItem(allDay, events[i])
                     /\ \E k \in 1..Len(timed) :
                            /\ timed[k].type = "event"
                            /\ timed[k].eventId = events[i].id
                            /\ timed[k].start = timeToMinutes(events[i].time)
                            /\ timed[k].start = Num(HHMM(events[i].time))
                            /\ timed[k].end = Num(HHMM(events[i].time) + 60)

\* C8 witness: the selected date has an untimed and a timed event, and another
\* date has an event too
C8_Witness ==
    /\ \E i \in 1..Len(events) : events[i].date = selectedDate /\ events[i].time = EMPTY
    /\ \E i \in 1..Len(events) : events[i].date = selectedDate /\ events[i].time # EMPTY
    /\ \E i \in 1..Len(events) : events[i].date # selectedDate

\* C9: in every per-date list of eventsByDate the timed events are in ascending
\* order of time of day and no untimed event comes before a timed one.
C9_DayListOrder ==
    \E map \in {eventsByDate} :
        \A iso \in DOMAIN map :
            \A i, j \in 1..Len(map[iso]) :
                i < j =>
                    /\ map[iso][j].time # EMPTY => map[iso][i].time # EMPTY
                    /\ (map[iso][i].time # EMPTY /\ map[iso][j].time # EMPTY)
                           => HHMM(map[iso][i].time) <= HHMM(map[iso][j].time)

\* C9 witness: a date with an untimed event and two events at different times,
\* which the sort has reordered
C9_Witness ==
    \E iso \in DOMAIN eventsByDate :
        \E list \in {eventsByDate[iso]} :
            /\ Len(list) = 3
            /\ list[1].time # EMPTY /\ list[2].time # EMPTY /\ list[3].time = EMPTY
            /\ list[1].time # list[2].time
            /\ list # Filter(events, {i \in 1..Len(events) : events[i].date = iso})

\* C10: every timed item of the day view is drawn with top = start and with
\* height = max(30, end - start), hence at least 30, also a class item whose
\* end is not after its start.
C10_TopAndHeight ==
    \E items \in {timedItems} :
        \A k \in 1..Len(items) :
            /\ items[k].start.t = "num" /\ items[k].end.t = "num"
            /\ TimelineTop(items[k]) = Num(items[k].start.v)
            /\ TimelineHeight(items[k]) =
                   Num(IF items[k].end.v - items[k].start.v > 30
                       THEN items[k].end.v - items[k].start.v ELSE 30)
            /\ TimelineHeight(items[k]).v >= 30

\* C10 witness: the timeline shows a class that ends before it starts, and an event
C10_Witness ==
    \E items \in {timedItems} :
        /\ \E k \in 1..Len(items) :
               items[k].type = "class" /\ items[k].end.v < items[k].start.v
        /\ \E k \in 1..Len(items) : items[k].type = "event"

----------------------------------------------------------------------------
(* Claims about the time and date utilities.                               *)

\* the "HH:MM" of a minute of the day, digit by digit
ClockText(m) ==
    <<48 + ((m \div 60) \div 10), 48 + ((m \div 60) % 10), 58,
      48 + ((m % 60) \div 10), 48 + ((m % 60) % 10)>>

\* the multiple of 5 nearest to an integer
NearestFive(y) == CHOOSE m \in {5 * k : k \in ((y \div 5) - 1)..((y \div 5) + 1)} :
                      2 * (IF y >= m THEN y - m ELSE m - y) < 5

Clamp(m) == IF m < 0 THEN 0 ELSE IF m > 1439 THEN 1439 ELSE m

\* C11: a click at any integer offset y of the timeline sets the form's time to
\* the HH:MM of y rounded to the nearest multiple of 5 and clamped to [0, 1439],
\* a valid time of day, and the form's date to the selected date.
C11_ClickSetsTime ==
    [][\A y \in ClickOffsets :
           handleTimelineClick(y) =>
               /\ eventForm'.time = ClockText(Clamp(NearestFive(y)))
               /\ \E m \in 0..1439 : eventForm'.time = ClockText(m)
               /\ eventForm'.date = selectedDate
               /\ quickAddOpen']_vars

\* C11 witness: a click below the grid has put the last minute of the day, and
\* the other day selected before the click, in the form
C11_Witness ==
    /\ quickAddOpen
    /\ eventForm.time = ClockText(1439)
    /\ eventForm.date = D0301

\* the time texts the views convert: of the classes, the events and the event form
TimeTextsInUse ==
    {classes[i].meetingStartTime : i \in 1..Len(classes)}
        \cup {classes[i].meetingEndTime : i \in 1..Len(classes)}
        \cup {events[i].time : i \in 1..Len(events)}
        \cup {eventForm.time}

WellFormedTime(text) == \E m \in 0..1439 : text = ClockText(m)

\* C12: timeToMinutes of a well-formed HH:MM text is hh*60+mm and minutesToTime
\* of that is the text again; timeToMinutes of an empty or unparseable text is
\* null.
C12_TimeRoundTrip ==
    \A text \in TimeTextsInUse :
        \E minutes \in {timeToMinutes(text)} :
            IF WellFormedTime(text)
            THEN /\ minutes = Num(HHMM(text))
                 /\ minutesToTime(minutes.v) = text
            ELSE minutes = Null

\* the date texts the handlers parse: of the forms and the selected date
DateTextsInUse ==
    {noSchoolForm.startDate, noSchoolForm.endDate, specialDayForm.date, selectedDate}

\* "YYYY-MM-DD" of a day of the calendar
WellFormedDate(text) ==
    /\ Len(text) = 10
    /\ \A i \in 1..10 : IF i \in {5, 8} THEN text[i] = 45 ELSE IsDigit(text[i])
    /\ \E y \in {DigitsValue(SubSeq(text, 1, 4))},
          m \in {DigitsValue(SubSeq(text, 6, 7))},
          d \in {DigitsValue(SubSeq(text, 9, 10))} :
           /\ m \in 1..12
           /\ d >= 1
           /\ d <= (IF m = 12 THEN 31 ELSE DaysFromCivil(y, m + 1) - DaysFromCivil(y, m))

\* C13: toISODate(parseLocalDate(s)) is s for every well-formed "YYYY-MM-DD" s.
C13_DateRoundTrip ==
    \A text \in DateTextsInUse :
        WellFormedDate(text) => toISODate(parseLocalDate(text)) = text

----------------------------------------------------------------------------
(* Claims about assignments and classes.                                   *)

\* a record with a completion time: the key is there and is not undefined
HasCompletedAt(item) ==
    "completedAt" \in DOMAIN item /\ item.completedAt # Undefined

\* C14: starting with no assignments, after any sequence of adding, editing,
\* toggling and deleting assignments and renaming classes, an assignment has a
\* completion time if and only if its status is Done, in memory and as stored.
C14_CompletedIffDone ==
    /\ \A i \in 1..Len(assignments) :
           HasCompletedAt(assignments[i]) <=> assignments[i].status = "Done"
    /\ \A i \in 1..Len(storedAssignments) :
           HasCompletedAt(storedAssignments[i]) <=> storedAssignments[i].status = "Done"

\* an edited and renamed assignment that is Done next to one that was completed
\* and reopened
C14_Witness ==
    \E i, j \in 1..Len(assignments) :
        /\ assignments[i].status = "Done"
        /\ assignments[i].title = TitleF /\ assignments[i].course = NameB
        /\ assignments[j].status = "Open" /\ "completedAt" \in DOMAIN assignments[j]

\* the list without the course of an id
WithoutCourse(list, id) == Filter(list, {i \in 1..Len(list) : list[i].id # id})

\* C15: handleDeleteClass of a course with no assignment of its name removes
\* exactly that course from the class list, in memory and as stored; with an
\* assignment of its name it leaves the class list and the stored one as they are.
C15_DeleteClass ==
    [][\A k \in 1..Len(classes) :
           handleDeleteClass(classes[k]) =>
               IF \E i \in 1..Len(assignments) : assignments[i].course = classes[k].name
               THEN classes' = classes /\ storedClasses' = storedClasses
               ELSE /\ classes' = WithoutCourse(classes, classes[k].id)
                    /\ Len(classes') = Len(classes) - 1
                    /\ storedClasses' = classes']_vars

\* class "B" was deleted while the class of the assignment is still listed
C15_Witness ==
    /\ \A k \in 1..Len(classes) : classes[k].name # NameB
    /\ \E i \in 1..Len(assignments), k \in 1..Len(classes) :
           assignments[i].course = classes[k].name /\ assignments[i].status = "Done"
    /\ storedClasses = classes

\* a name with its capital letters made small
Folded(name) == [i \in 1..Len(name) |-> IF name[i] \in 65..90 THEN name[i] + 32 ELSE name[i]]

NamesUnique(list) ==
    \A i, j \in 1..Len(list) : i # j => Folded(list[i].name) # Folded(list[j].name)

CollectionsKept ==
    /\ classes' = classes /\ storedClasses' = storedClasses
    /\ assignments' = assignments /\ storedAssignments' = storedAssignments

\* C16: handleCreateClass and handleSaveEditClass with a name that another course
\* has up to the case of its letters leave the classes and the assignments as
\* they are, in memory and as stored; so the names of the classes stay unique up
\* to case through every creation, renaming and deletion.
C16_UniqueNames ==
    /\ [](NamesUnique(classes) /\ NamesUnique(storedClasses))
    /\ [][/\ (/\ handleCreateClass
              /\ \E i \in 1..Len(classes) :
                     Folded(classes[i].name) = Folded(Trim(classForm.name)))
             => CollectionsKept
          /\ \A k \in 1..Len(classes) :
                 (/\ handleSaveEditClass(classes[k])
                  /\ \E i \in 1..Len(classes) :
                         /\ classes[i].id # classes[k].id
                         /\ Folded(classes[i].name) = Folded(Trim(editingClassName)))
                 => CollectionsKept]_vars

\* class "A" was renamed to "a" and class "B" was deleted and created again
C16_Witness ==
    /\ Len(classes) = 2
    /\ classes[1].name = NameLowerA /\ classes[1].id = 101
    /\ classes[2].name = NameB /\ classes[2].id <= MaxUuid
    /\ classForm.name = NameLowerA

----------------------------------------------------------------------------
(* Claims about loading and saving.                                        *)

\* a stored element that carries a field: a record with the key and a value
\* that is not empty
Carries(item, field) ==
    /\ field \in DOMAIN item
    /\ item[field] # (IF field = "id" THEN 0 ELSE IF field = "kind" THEN "" ELSE EMPTY)

\* the stored elements that carry all the fields, in stored order; none when
\* the key holds no array
Valid(key, stored, fields) ==
    IF storageKind[key] # "array" THEN <<>>
    ELSE SelectSeq(stored, LAMBDA item : \A f \in fields : Carries(item, f))

ValidClasses == Valid("classes", storedClasses, {"id", "name"})

\* C17: for stored classes with names unique up to case and assignments with
\* any course names, the names of the merged class list are unique up to case.
C17_MergedNamesUnique ==
    NamesUnique(ValidClasses) => NamesUnique(classes)

ScheduleField(item, field, empty) == IF field \in DOMAIN item THEN item[field] ELSE empty

\* C18: after loading, every course name of an assignment that no stored class
\* has is a course without meeting days and times, every stored class is listed
\* with its schedule, and the list is sorted by name.
C18_MergedClasses ==
    /\ \A i \in 1..Len(assignments) :
           (\A r \in 1..Len(ValidClasses) : ValidClasses[r].name # assignments[i].course)
           => \E k \in 1..Len(classes) :
                  /\ classes[k].name = assignments[i].course
                  /\ classes[k].meetingDays = <<>>
                  /\ classes[k].meetingStartTime = EMPTY
                  /\ classes[k].meetingEndTime = EMPTY
    /\ \A r \in 1..Len(ValidClasses) :
           \E k \in 1..Len(classes) :
               /\ classes[k].id = ValidClasses[r].id
               /\ classes[k].name = ValidClasses[r].name
               /\ classes[k].meetingDays = ScheduleField(ValidClasses[r], "meetingDays", <<>>)
               /\ classes[k].meetingStartTime
                      = ScheduleField(ValidClasses[r], "meetingStartTime", EMPTY)
               /\ classes[k].meetingEndTime
                      = ScheduleField(ValidClasses[r], "meetingEndTime", EMPTY)
    /\ \A i, j \in 1..Len(classes) :
           i < j => ~LexLess(LocaleKey(classes[j].name), LocaleKey(classes[i].name))

\* stored classes "B", "A" and an assignment of "C" were loaded as "A", "B", "C"
C18_Witness ==
    /\ Len(storedClasses) = 2 /\ storedClasses[1].id = 102
    /\ Len(classes) = 3
    /\ classes[1].id = 101 /\ classes[2].id = 102
    /\ classes[3].name = NameC /\ classes[3].id <= MaxUuid

\* C19: each load function gives the empty list when the stored value is absent,
\* unparseable or not an array, and otherwise the stored elements that carry all
\* the required fields of the collection, in stored order.
C19_LoadValidates ==
    /\ [](/\ loadAssignments(storageKind.assignments, storedAssignments)
                = Valid("assignments", storedAssignments, {"id", "title", "dueDate"})
          /\ loadClasses(storageKind.classes, storedClasses)
                = Valid("classes", storedClasses, {"id", "name"})
          /\ loadEvents(storageKind.events, storedEvents)
                = Valid("events", storedEvents, {"id", "title", "date"})
          /\ loadOverrides(storageKind.overrides, storedOverrides)
                = Valid("overrides", storedOverrides, {"id", "date", "kind"})
          /\ events = Valid("events", storedEvents, {"id", "title", "date"})
          /\ overrides = Valid("overrides", storedOverrides, {"id", "date", "kind"}))
    /\ [][Mount => assignments' = Valid("assignments", storedAssignments,
                                        {"id", "title", "dueDate"})]_vars

\* two of four stored assignments, two of four events and two of four overrides
\* were loaded, and no class from an unparseable text
C19_Witness ==
    /\ Len(storedAssignments) = 4 /\ Len(assignments) = 2
    /\ Len(storedEvents) = 4 /\ Len(events) = 2
    /\ Len(storedOverrides) = 4 /\ Len(overrides) = 2
    /\ storageKind.classes = "unparseable" /\ Len(classes) = 2

\* the JSON text of a list read back: the keys with a defined value
AsJson(list) ==
    [i \in 1..Len(list) |->
        [k \in {key \in DOMAIN list[i] :
                   key # "completedAt" \/ list[i].completedAt # Undefined} |-> list[i][k]]]

\* a step that changes the collection of a key, in memory or as stored
Mutates(key) ==
    \/ storageKind'[key] # storageKind[key]
    \/ key = "assignments"
           /\ (assignments' # assignments \/ storedAssignments' # storedAssignments)
    \/ key = "classes" /\ (classes' # classes \/ storedClasses' # storedClasses)
    \/ key = "events" /\ (events' # events \/ storedEvents' # storedEvents)
    \/ key = "overrides" /\ (overrides' # overrides \/ storedOverrides' # storedOverrides)

\* after the step the key holds the JSON array of the whole collection
StoredIsMemory(key) ==
    /\ storageKind'[key] = "array"
    /\ key = "assignments" => storedAssignments' = AsJson(assignments')
    /\ key = "classes" => storedClasses' = classes'
    /\ key = "events" => storedEvents' = events'
    /\ key = "overrides" => storedOverrides' = overrides'

\* C20: after every operation that changes a collection, the value stored under
\* the key of the collection is the whole collection in memory; a saved class
\* edit leaves both the stored classes and the stored assignments so.
C20_StoredIsMemory ==
    [][/\ \A key \in StorageKeys : Mutates(key) => StoredIsMemory(key)
       /\ \A k \in 1..Len(classes) :
              handleSaveEditClass(classes[k]) /\ editingClassId' = Null
              => StoredIsMemory("classes") /\ StoredIsMemory("assignments")]_vars

\* class "A" was renamed to "B" with its assignment, an event and an override
\* were deleted, and the malformed stored elements are gone
C20_Witness ==
    /\ Len(assignments) = 1 /\ assignments[1].course = NameB
    /\ storedAssignments = AsJson(assignments)
    /\ \E k \in 1..Len(classes) : classes[k].name = NameB /\ classes[k].id = 101
    /\ storedClasses = classes
    /\ events = <<>> /\ storedEvents = <<>>
    /\ overrides = <<>> /\ storedOverrides = <<>>

----------------------------------------------------------------------------
(* Claims about the handlers' effects.                                     *)

\* a text of white space only
IsBlank(text) == \A i \in 1..Len(text) : text[i] \in {9, 10, 13, 32}

\* the four collections and what is stored of them stay as they are
NothingSaved ==
    /\ assignments' = assignments /\ storedAssignments' = storedAssignments
    /\ classes' = classes /\ storedClasses' = storedClasses
    /\ events' = events /\ storedEvents' = storedEvents
    /\ overrides' = overrides /\ storedOverrides' = storedOverrides
    /\ storageKind' = storageKind

C22_NoCascade ==
    [][\A k \in 1..Len(classes) :
           (handleDeleteClass(classes[k]) /\ classes' # classes)
           => /\ assignments' = assignments /\ storedAssignments' = storedAssignments
              /\ events' = events /\ storedEvents' = storedEvents
              /\ overrides' = overrides /\ storedOverrides' = storedOverrides
              /\ \A i \in 1..Len(events) :
                     events[i].courseId = classes[k].id
                     => \E j \in 1..Len(events') : events'[j] = events[i]]_vars

\* class "B" was deleted and its event is still there
C22_Witness ==
    /\ \A k \in 1..Len(classes) : classes[k].id # 102
    /\ storageKind.classes = "array" /\ storedClasses = classes
    /\ \E i \in 1..Len(events) : events[i].courseId = 102
    /\ Len(events) = 2 /\ Len(overrides) = 1

\* C23: the course of the assignment form being chosen from the names of the
\* class list, every assignment's course is the name of a listed class after
\* any adding, editing and deleting of assignments, any creating, renaming and
\* deleting of classes and any reload.
C23_CourseListed ==
    \A i \in 1..Len(assignments) :
        \E k \in 1..Len(classes) : classes[k].name = assignments[i].course

\* the stored assignment belongs to the renamed class, an added one to a class
\* that was created, and the class list was stored
C23_Witness ==
    /\ storageKind.classes = "array"
    /\ \E i \in 1..Len(assignments) :
           assignments[i].id = 201 /\ assignments[i].course = NameC
    /\ \E i \in 1..Len(assignments) :
           assignments[i].id # 201 /\ assignments[i].course = NameB

\* the state that handleTimelineClick leaves for a click at offset y: the popup
\* is open and the form holds the selected date and the clicked time (a click
\* in such a state leaves it as it is)
AfterTimelineClick(y) ==
    /\ quickAddOpen
    /\ eventForm.date = selectedDate
    /\ eventForm.time = minutesToTime(((2 * y + 5) \div 10) * 5)

\* C24: after handleTimelineClick, the submission of the quick-add form with a
\* non-blank title adds exactly one event, at the clicked date and time, and
\* leaves every event there was as it is, whatever was done before the click.
C24_ClickThenSubmitAdds ==
    [][\A y \in QuickAddOffsets :
           (/\ AfterTimelineClick(y)
            /\ Trim(eventForm.title) # EMPTY
            /\ handleQuickAddSubmit \/ handleEditEventSubmit)
           => /\ Len(events') = Len(events) + 1
              /\ \A i \in 1..Len(events) : \E j \in 1..Len(events') : events'[j] = events[i]
              /\ \E j \in 1..Len(events') :
                     /\ \A i \in 1..Len(events) : events[i].id # events'[j].id
                     /\ events'[j].date = selectedDate
                     /\ events'[j].time = eventForm.time]_vars

\* C25: for every date and every course, the course is among the recurring
\* classes of the date's month-grid cell exactly if the day view of that date
\* shows a class item for it, timed or all-day; a course with an end time and no
\* start time is in both or in neither.
C25_MonthCellIffDayView ==
    \A date \in CalendarDates :
        toISODate(date) = selectedDate
        => \E cell \in {MonthCellRecurring(date)},
              timed \in {timedItems}, allDay \in {allDayItems} :
               \A i \in 1..Len(classes) :
                   (\E k \in 1..Len(cell) : cell[k].id = classes[i].id)
                       <=> (HasClassItem(timed, classes[i])
                              \/ HasClassItem(allDay, classes[i]))

\* C26: whatever was stored at first and whatever was done since, a reload gives
\* the collections that were in memory just before it, the ids of the courses
\* included: an event's courseId that named a course names the same course
\* after the reload.
C26_ReloadKeepsCollections ==
    [][Mount
       => /\ AsJson(assignments') = AsJson(assignments)
          /\ classes' = classes
          /\ events' = events
          /\ overrides' = overrides
          /\ \A i \in 1..Len(events), k \in 1..Len(classes) :
                 events[i].courseId = classes[k].id
                 => \E j \in 1..Len(events'), l \in 1..Len(classes') :
                        /\ events'[j].id = events[i].id
                        /\ classes'[l].id = events'[j].courseId
                        /\ classes'[l].name = classes[k].name]_vars

\* C27: a handleSaveEditClass that renames a course from old to new changes the
\* course of exactly the assignments of old and nothing else of any assignment,
\* keeps their number, leaves the events and the overrides as they are, and
\* moves selectedCourse and form.course from old to new.
C27_RenameCascades ==
    [][\A k \in 1..Len(classes) :
           (handleSaveEditClass(classes[k]) /\ editingClassId' = Null)
           => \E old \in {classes[k].name}, new \in {Trim(editingClassName)} :
                /\ Len(assignments') = Len(assignments)
                /\ \A i \in 1..Len(assignments) :
                       /\ assignments[i].course = old
                              => assignments'[i] = [assignments[i] EXCEPT !.course = new]
                       /\ assignments[i].course # old => assignments'[i] = assignments[i]
                /\ events' = events /\ storedEvents' = storedEvents
                /\ overrides' = overrides /\ storedOverrides' = storedOverrides
                /\ selectedCourse = Str(old) => selectedCourse' = Str(new)
                /\ selectedCourse # Str(old) => selectedCourse' = selectedCourse
                /\ form.course = old => form' = [form EXCEPT !.course = new]
                /\ form.course # old => form' = form]_vars

\* class "A" is now "C": its assignment and the course filter followed, the
\* assignment of "B" and the event did not move
C27_Witness ==
    /\ \E k \in 1..Len(classes) : classes[k].id = 101 /\ classes[k].name = NameC
    /\ \E i \in 1..Len(assignments) :
           assignments[i].id = 201 /\ assignments[i].course = NameC
    /\ \E i \in 1..Len(assignments) :
           assignments[i].id = 202 /\ assignments[i].course = NameB
    /\ selectedCourse = Str(NameC) /\ form.course = NameC
    /\ editingClassId = Null
    /\ Len(events) = 1 /\ events[1].courseId = 101

\* C28: editingId is null or the id of a listed assignment after any sequence of
\* handleEdit, handleCancelEdit, handleSubmit, handleToggleStatus and
\* handleDelete; the deletion of the edited assignment resets editingId and the
\* form, so that no handleSubmit runs as the edit of an assignment that is gone.
C28_EditingIdListed ==
    /\ [](editingId # Null
            => \E i \in 1..Len(assignments) : assignments[i].id = editingId.v)
    /\ [][\A i \in 1..Len(assignments) :
              (handleDelete(assignments[i].id) /\ editingId = Num(assignments[i].id))
              => (editingId' = Null /\ form' = emptyForm)]_vars
    /\ [][(handleSubmit /\ editingId # Null /\ editingId' = Null)
              => \E i \in 1..Len(assignments) :
                     /\ assignments[i].id = editingId.v
                     /\ assignments'[i] = Edited(assignments[i], form)]_vars

\* an assignment is edited after another one was deleted
C28_Witness ==
    /\ editingId # Null
    /\ Len(assignments) = 1 /\ assignments[1].id = editingId.v
    /\ uuid >= 2

\* the dates of the calendar told apart: "YYYY-MM-DD" texts in calendar order
DateTextLE(a, b) == a = b \/ LexLess(a, b)

\* C29: handleAddNoSchool with a valid start date and an optional end date adds
\* exactly one no_school override, carrying the trimmed label, for each date
\* from the earlier to the later of the two (for the start date alone when the
\* end date is empty), none for another date, and keeps the overrides there were.
C29_OnePerDateOfRange ==
    [][(handleAddNoSchool /\ noSchoolForm.startDate # EMPTY)
       => \E start \in {noSchoolForm.startDate},
             end \in {IF noSchoolForm.endDate # EMPTY THEN noSchoolForm.endDate
                      ELSE noSchoolForm.startDate} :
          \E lo \in {IF DateTextLE(start, end) THEN start ELSE end},
             hi \in {IF DateTextLE(start, end) THEN end ELSE start},
             n \in {Len(overrides') - Len(overrides)} :
            /\ n >= 1
            /\ \A i \in 1..Len(overrides) : overrides'[n + i] = overrides[i]
            /\ \A k \in 1..n :
                   /\ overrides'[k].kind = "no_school"
                   /\ overrides'[k].label = Trim(noSchoolForm.label)
                   /\ DateTextLE(lo, overrides'[k].date)
                   /\ DateTextLE(overrides'[k].date, hi)
                   /\ \A l \in 1..n : overrides'[l].date = overrides'[k].date => l = k
            /\ \A date \in {D0229, D0301, D0999} :
                   (DateTextLE(lo, date) /\ DateTextLE(date, hi))
                   => \E k \in 1..n : overrides'[k].date = date]_vars

\* the listed courses that meet on the weekday, have a start time and start at
\* the given minute of the day or later
StartingFrom(weekday, minute) ==
    {i \in 1..Len(classes) :
        /\ Includes(classes[i].meetingDays, weekday.v)
        /\ classes[i].meetingStartTime # EMPTY
        /\ timeToMinutes(classes[i].meetingStartTime).t = "num"
        /\ timeToMinutes(classes[i].meetingStartTime).v >= minute}

\* C30: nextClassToday is null when the current date resolves to no weekday;
\* otherwise it is a course that meets on the resolved weekday, has a start time
\* and starts at the current minute of the day or later, none of those starting
\* earlier than it; it is null when there is no such course.
C30_NextClassToday ==
    \E weekday \in {scheduleDayForDate(now)} :
        IF weekday = Null THEN nextClassToday = Null
        ELSE \E later \in {StartingFrom(weekday, now.min)} :
             IF later = {} THEN nextClassToday = Null
             ELSE /\ nextClassToday # Null
                  /\ \E i \in later :
                         /\ nextClassToday.course = classes[i]
                         /\ \A j \in later :
                                timeToMinutes(classes[i].meetingStartTime).v
                                    <= timeToMinutes(classes[j].meetingStartTime).v

\* the class that starts this very minute is the next class and another one
\* starts later
C30_Witness ==
    /\ nextClassToday # Null
    /\ nextClassToday.start = Num(now.min)
    /\ \E i \in 1..Len(classes) :
           /\ Includes(classes[i].meetingDays, "Thu")
           /\ timeToMinutes(classes[i].meetingStartTime) = Num(now.min + 30)
    /\ Len(classes) = 2

====
